---- MODULE Spec2Model ----
(***************************************************************************)
(* EasyReflectometry: the constraint wiring of LayerApm / SurfactantLayer  *)
(* (sample/elements/layers/layer_apm.py, sample/items/surfactant_layer.py) *)
(* and the calculator binding of the refnx interface                       *)
(* (EasyReflectometryLib/interfaces/refnx.py, EasyReflectometry/           *)
(* interface.py).                                                          *)
(*                                                                         *)
(* Two assemblies A and B, each a SurfactantLayer of two LayerApm layers,  *)
(* carry the Parameters of the constraint graph.  Parameter, ObjConstraint *)
(* and FunctionalConstraint are the easyCore classes the sources import:   *)
(* their behaviour (value setter, enabled flags, constraint runner) is     *)
(* written out here as the operators SetValue, CallConstraint, NewErr,     *)
(* SetEnabled.                                                             *)
(***************************************************************************)
EXTENDS Integers, Sequences, FiniteSets, TLC

\* ------------------------------------------------------------------ bounds
\* Number of operations performed on the assemblies in one behaviour.
MaxOps == 3
\* The same, for the behaviours that toggle a constraint off and on again.
MaxToggleOps == 4
\* Frames the interpreter allows a propagation to nest before RecursionError.
MaxDepth == 8
\* Number of operations performed on the Model and its tree in one behaviour.
MaxBindOps == 4
MaxCycleOps == 5

\* --------------------------------------------------------------- parameters
Asm == {"A", "B"}
LayerIx == {1, 2}
LayerFields == {"thickness", "roughness", "area_per_molecule",
                "scattering_length_real", "scattering_length_imag",
                "fraction", "sld", "isld"}
AsmFields == {"area_per_molecule", "roughness"}

\* The Parameter objects: those of each layer, the assembly-level ones that
\* the constrain_apm / conformal_roughness setters add, and the roughness
\* Parameter of a solvent layer ("S") handed to constrain_solvent_roughness,
\* and the sld / isld of the solvent Material (D2O) the layers are built in.
LayerParams == Asm \X LayerIx \X LayerFields
AsmParams == Asm \X {0} \X AsmFields
SolventRoughness == <<"S", 0, "roughness">>
SolventSld == <<"S", 0, "sld">>
SolventIsld == <<"S", 0, "isld">>
\* The roughness Parameter of a second layer the method can be handed.
SolventRoughness2 == <<"S2", 0, "roughness">>
\* The Materials a layer can be given as its solvent: "S" is the D2O the
\* layers are built in, "S2" a second Material; the sld / isld of each.
Solvents == {"S", "S2"}
SldOfSolvent(s) == <<s, 0, "sld">>
IsldOfSolvent(s) == <<s, 0, "isld">>
SolventParams == {SolventRoughness, SolventRoughness2}
                     \cup {SldOfSolvent(s) : s \in Solvents}
                     \cup {IsldOfSolvent(s) : s \in Solvents}
\* A third SurfactantLayer ("C"), the contrast two others are constrained to:
\* the Parameters of its two layers.
ThirdContrast == "C"
ThirdParams == {ThirdContrast} \X LayerIx \X LayerFields
\* The sld / isld of the MaterialSolvated each LayerApm hands to Layer as its
\* material: the mixture of the molecule Material (fields "sld" / "isld") and
\* the solvent by the solvent fraction.
SolvatedFields == {"solvated_sld", "solvated_isld"}
SolvatedParams == (Asm \cup {ThirdContrast}) \X LayerIx \X SolvatedFields
Params == LayerParams \cup AsmParams \cup SolventParams \cup ThirdParams
              \cup SolvatedParams

P(a, l, f) == <<a, l, f>>

VARIABLES
    val,      \* Parameter.raw_value of every Parameter
    en,       \* Descriptor.enabled of every Parameter
    has,      \* hasattr(assembly, 'area_per_molecule' / 'roughness')
    uc,       \* Parameter.user_constraints: an ordered dict, key -> constraint
    nops,     \* operations performed so far
    limit,    \* operations a behaviour performs at most
    last      \* the operation performed last and the exception it raised

cvars == <<val, en, has, uc, nops, limit, last>>

VARIABLES
    molecular_formula,  \* LayerApm._molecular_formula of every layer
    material_name,      \* name of the solvated material of every layer
    solvent             \* the solvent (_material_b) of every layer's material

avars == <<molecular_formula, material_name, solvent>>

VARIABLES
    tree,     \* the entity tree: layers of each assembly, assemblies of the Model
    pv,       \* value of every Parameter the interface links
    iface,    \* name of the interface the Model holds ("none": not assigned)
    store,    \* storage of the active interface's calculator
    bnd,      \* the entities whose Parameters call back into `store`
    hist      \* the interface operation performed last

bvars == <<tree, pv, iface, store, bnd, hist>>
vars == <<val, en, has, uc, nops, limit, last, tree, pv, iface, store, bnd, hist,
          molecular_formula, material_name, solvent>>

\* ------------------------------------------------------------ value helpers
Abs(x) == IF x < 0 THEN -x ELSE x

RECURSIVE Gcd(_, _)
Gcd(a, b) == IF b = 0 THEN a ELSE Gcd(b, a % b)

\* A quotient kept exact: the pair <<numerator, denominator>> in lowest terms
\* (the pair <<0, 0>> has none and is kept; no rule computes it, a division
\* by zero raises first).
Quot(n, d) ==
    LET g == Gcd(Abs(n), d) IN IF g = 0 THEN <<n, d>> ELSE <<n \div g, d \div g>>

\* special.calculations.apm_to_sld / area_per_molecule_to_sld, the rule of the
\* two functional constraints:
\*   scattering_length / (thickness * area_per_molecule)
\* A rule that fails on the zero divisor only for a scattering length of 0.
RuleRaisesOnZeroLength(sl, t, a) == t * a = 0 /\ sl = 0
RuleRaises(sl, t, a) == t * a = 0
apm_to_sld(sl, t, a) == Quot(sl, t * a)

\* The sld of a solvated mixture: the molecule Material's sld a and the
\* solvent's sld b, weighted by the solvent fraction p.  A fraction is held
\* as one of the integers 0 and 1 (its min and max), or as an exact quotient
\* such as 1/5 for a solvation of 0.2.
AsQuot(v) == IF \E n \in 0..1 : ToString(v) = ToString(n) THEN <<v, 1>> ELSE v
weighted_average(a, b, p) ==
    LET q == AsQuot(p)
    IN Quot((q[2] - q[1]) * a[1] * b[2] + q[1] * b[1] * a[2], q[2] * a[2] * b[2])

\* LAYERAPM_DETAILS: min / max of each Parameter (np.inf is "no bound").
HasMax(p) == p[3] = "fraction"
HasMin(p) == p[3] \in {"thickness", "roughness", "area_per_molecule", "fraction"}
\* LAYERAPM_DETAILS 'fixed': True on every Parameter built from it (the
\* assembly-level ones included); fixed keeps a Parameter out of a fit.
Fixed(p) == p[3] \notin {"sld", "isld"} \cup SolvatedFields
\* Parameter.value setter, builtin min/max constraints: the value is clamped.
Clamp(p, v) ==
    IF HasMin(p) /\ v < 0 THEN 0
    ELSE IF HasMax(p) /\ v > 1 THEN 1
    ELSE v


\* ------------------------------------------------- constraints (easyCore)
\* A constraint object: ObjConstraint(dep, '', ind) is kind "obj" and mirrors
\* its one independent; FunctionalConstraint(dep, apm_to_sld, inds) is kind
\* "func".  `key` is the key it is registered under in user_constraints.
Mirror(key, dep, ind) ==
    [key |-> key, dep |-> dep, ind |-> <<ind>>, kind |-> "obj", enabled |-> TRUE]
Functional(key, dep, inds) ==
    [key |-> key, dep |-> dep, ind |-> inds, kind |-> "func", enabled |-> TRUE]
\* FunctionalConstraint(dep, weighted_average, inds) of a solvated material;
\* `built` tells the constraint objects built for one dependent apart: the
\* number of the operation that built it (0: the construction of the layer).
Weighted(key, dep, inds, n) ==
    [key |-> key, dep |-> dep, ind |-> inds, kind |-> "mix", enabled |-> TRUE,
     built |-> n]

\* Position of `key` in an ordered dict (0 when absent).
IndexOf(d, key) ==
    IF \E i \in 1..Len(d) : d[i].key = key
    THEN CHOOSE i \in 1..Len(d) : d[i].key = key
    ELSE 0

\* dict[key] = c : an existing key keeps its position, a new key is appended.
DictSet(d, c) ==
    LET i == IndexOf(d, c.key)
    IN IF i = 0 THEN Append(d, c) ELSE [d EXCEPT ![i] = c]

\* ConstraintBase.__init__: the exception constructing a constraint raises.
NewErr(enabled, dep, inds) ==
    IF \E i \in 1..Len(inds) : inds[i] = dep THEN "AttributeError"
    ELSE IF ~enabled[dep] THEN "AssertionError"
    ELSE "none"

\* ConstraintBase._parse_operator: the value a constraint computes.
RuleArgsRaise(vals, c) ==
    c.kind = "func" /\ RuleRaises(vals[c.ind[1]], vals[c.ind[2]], vals[c.ind[3]])
RuleValue(vals, c) ==
    IF c.kind = "obj" THEN vals[c.ind[1]]
    ELSE IF c.kind = "mix"
         THEN weighted_average(vals[c.ind[1]], vals[c.ind[2]], vals[c.ind[3]])
    ELSE apm_to_sld(vals[c.ind[1]], vals[c.ind[2]], vals[c.ind[3]])

\* Parameter.value setter, Parameter._constraint_runner and
\* ConstraintBase.__call__, over st = [val, en, err]:
\*  - a write to a Parameter that is not enabled is dropped silently;
\*  - the value is stored, clamped to min/max, then every constraint of
\*    user_constraints is called in dict order;
\*  - a called constraint that is enabled computes its value, enables its
\*    dependent for the time of the write, writes it (recursively) and
\*    disables it again; an exception leaves the dependent enabled.
RECURSIVE SetValue(_, _, _, _), RunConstraints(_, _, _, _), CallConstraint(_, _, _)

\* A constraint that assigns its dependent without running the constraints
\* the dependent holds.
CallConstraintNoChain(st, c, fuel) ==
    IF ~c.enabled THEN st
    ELSE IF RuleArgsRaise(st.val, c) THEN [st EXCEPT !.err = "ZeroDivisionError"]
    ELSE [st EXCEPT !.val[c.dep] = RuleValue(st.val, c)]

CallConstraint(st, c, fuel) ==
    IF ~c.enabled THEN st
    ELSE IF fuel = 0 THEN [st EXCEPT !.err = "RecursionError"]
    ELSE IF RuleArgsRaise(st.val, c) THEN [st EXCEPT !.err = "ZeroDivisionError"]
    ELSE LET value == RuleValue(st.val, c)
             toggle == ~st.en[c.dep]
             st1 == [st EXCEPT !.en[c.dep] = TRUE]
             st2 == SetValue(st1, c.dep, value, fuel - 1)
         IN IF st2.err # "none" THEN st2
            ELSE IF toggle THEN [st2 EXCEPT !.en[c.dep] = FALSE]
            ELSE st2

RunConstraints(st, p, i, fuel) ==
    IF st.err # "none" \/ i > Len(uc[p]) THEN st
    ELSE RunConstraints(CallConstraint(st, uc[p][i], fuel), p, i + 1, fuel)

SetValue(st, p, v, fuel) ==
    IF ~st.en[p] THEN st
    ELSE RunConstraints([st EXCEPT !.val[p] = Clamp(p, v)], p, 1, fuel)

\* ConstraintBase.enabled setter on the constraint registered under `key` of
\* Parameter p, over rs = [val, en, uc, has, err].  Enabling disables the
\* dependent and calls the constraint while its flag is still False, so the
\* call returns at once; disabling enables the dependent.
SetEnabled(rs, p, key, x) ==
    LET i == IndexOf(rs.uc[p], key)
    IN IF rs.err # "none" THEN rs
       ELSE IF i = 0 THEN [rs EXCEPT !.err = "KeyError"]
       ELSE IF rs.uc[p][i].enabled = x THEN rs
       ELSE [rs EXCEPT !.en[rs.uc[p][i].dep] = ~x,
                       !.uc[p][i].enabled = x]

\* True when constraint object c is still held by some user_constraints dict
\* of `dicts` other than under (p, c.key).
HeldElsewhere(dicts, p, c) ==
    \E q \in Params : q # p /\ \E i \in 1..Len(dicts[q]) : dicts[q][i] = c

\* user_constraints[c.key] = c on Parameter p.  The constraint object it
\* replaces, when no dict holds it any more, is collected and its finalizer
\* (cleanup_constraint) enables its dependent.
Register(rs, p, c) ==
    LET i == IndexOf(rs.uc[p], c.key)
        dropped == i # 0 /\ ~HeldElsewhere(rs.uc, p, rs.uc[p][i])
        rs1 == [rs EXCEPT !.uc[p] = DictSet(@, c)]
    IN IF dropped THEN [rs1 EXCEPT !.en[rs.uc[p][i].dep] = TRUE] ELSE rs1

\* ObjConstraint(dep, '', ind) followed by ind.user_constraints[key] = it.
\* The mirror constructed the wrong way round: ObjConstraint(ind, '', dep),
\* stored in dep.user_constraints.
AddMirrorSwapped(rs, key, dep, ind) ==
    IF rs.err # "none" THEN rs
    ELSE LET e == NewErr(rs.en, ind, <<dep>>)
         IN IF e # "none" THEN [rs EXCEPT !.err = e]
            ELSE Register([rs EXCEPT !.en[ind] = FALSE], dep, Mirror(key, ind, dep))

AddMirror(rs, key, dep, ind) ==
    IF rs.err # "none" THEN rs
    ELSE LET e == NewErr(rs.en, dep, <<ind>>)
         IN IF e # "none" THEN [rs EXCEPT !.err = e]
            ELSE Register([rs EXCEPT !.en[dep] = FALSE], ind, Mirror(key, dep, ind))

\* ------------------------------------------------------------ construction
\* LayerApm.__init__ for layer l of assembly a: the two functional
\* constraints and the dicts they are registered in.
ApmConstraint(a, l) ==
    Functional("apm", P(a, l, "sld"),
               <<P(a, l, "scattering_length_real"), P(a, l, "thickness"),
                 P(a, l, "area_per_molecule")>>)
IapmConstraint(a, l) ==
    Functional("iapm", P(a, l, "isld"),
               <<P(a, l, "scattering_length_imag"), P(a, l, "thickness"),
                 P(a, l, "area_per_molecule")>>)

\* MaterialSolvated(material, solvent, solvation): its sld and isld are the
\* dependents of two functional constraints, registered under 'sld' / 'isld'
\* with the sld / isld of the molecule Material and of the solvent and with
\* the fraction.
SolvatedSldConstraint(a, l, s, n) ==
    Weighted("sld", P(a, l, "solvated_sld"),
             <<P(a, l, "sld"), SldOfSolvent(s), P(a, l, "fraction")>>, n)
SolvatedIsldConstraint(a, l, s, n) ==
    Weighted("isld", P(a, l, "solvated_isld"),
             <<P(a, l, "isld"), IsldOfSolvent(s), P(a, l, "fraction")>>, n)
\* The layers share one solvent Material and are built one after the other,
\* each assigning solvent.sld.user_constraints['sld']: the entry of the
\* layer built last is the one the dict keeps.
BuiltLast == <<ThirdContrast, 2>>
MaterialSolvatedConstraints(p) ==
    IF p = SolventSld THEN <<SolvatedSldConstraint(BuiltLast[1], BuiltLast[2], "S", 0)>>
    ELSE IF p = SolventIsld
         THEN <<SolvatedIsldConstraint(BuiltLast[1], BuiltLast[2], "S", 0)>>
    ELSE IF p[2] = 0 THEN <<>>
    ELSE IF p[3] = "sld" THEN <<SolvatedSldConstraint(p[1], p[2], "S", 0)>>
    ELSE IF p[3] = "isld" THEN <<SolvatedIsldConstraint(p[1], p[2], "S", 0)>>
    ELSE IF p[3] = "fraction"
         THEN <<SolvatedSldConstraint(p[1], p[2], "S", 0),
                SolvatedIsldConstraint(p[1], p[2], "S", 0)>>
    ELSE <<>>

\* LayerApm.__init__ without the line thickness.user_constraints['iapm'] = ...
LayerApmConstraintsNoIapm(p) ==
    IF p[2] = 0 THEN MaterialSolvatedConstraints(p)
    ELSE IF p[3] = "thickness" THEN <<ApmConstraint(p[1], p[2])>>
    ELSE IF p[3] = "area_per_molecule"
         THEN <<ApmConstraint(p[1], p[2]), IapmConstraint(p[1], p[2])>>
    ELSE IF p[3] = "scattering_length_real" THEN <<ApmConstraint(p[1], p[2])>>
    ELSE IF p[3] = "scattering_length_imag" THEN <<IapmConstraint(p[1], p[2])>>
    ELSE MaterialSolvatedConstraints(p)

\* LayerApm.__init__ without the line area_per_molecule.user_constraints['iapm'] = ...
LayerApmConstraintsApmOnly(p) ==
    IF p[2] = 0 THEN MaterialSolvatedConstraints(p)
    ELSE IF p[3] = "thickness"
         THEN <<ApmConstraint(p[1], p[2]), IapmConstraint(p[1], p[2])>>
    ELSE IF p[3] = "area_per_molecule" THEN <<ApmConstraint(p[1], p[2])>>
    ELSE IF p[3] = "scattering_length_real" THEN <<ApmConstraint(p[1], p[2])>>
    ELSE IF p[3] = "scattering_length_imag" THEN <<IapmConstraint(p[1], p[2])>>
    ELSE MaterialSolvatedConstraints(p)

LayerApmConstraints(p) ==
    IF p[2] = 0 THEN MaterialSolvatedConstraints(p)
    ELSE IF p[3] \in {"thickness", "area_per_molecule"}
         THEN <<ApmConstraint(p[1], p[2]), IapmConstraint(p[1], p[2])>>
    ELSE IF p[3] = "scattering_length_real" THEN <<ApmConstraint(p[1], p[2])>>
    ELSE IF p[3] = "scattering_length_imag" THEN <<IapmConstraint(p[1], p[2])>>
    ELSE MaterialSolvatedConstraints(p)

\* The arguments SurfactantLayer.from_pars is called with: layer 1 and layer 2
\* differ in every Parameter, both assemblies are built alike.
FromPars(l, f) ==
    IF f \in {"thickness", "roughness", "area_per_molecule"} THEN l
    ELSE IF f = "fraction" THEN l - 1
    ELSE IF f = "scattering_length_real" THEN 1
    ELSE 0

\* Material.from_pars(6.36, 0, 'D2O'): the solvent, its Parameters enabled;
\* the second Material is Material.from_pars(0, 0, 'Air').
SolventValue(p) ==
    IF p = SolventSld THEN Quot(636, 100)
    ELSE IF p[3] \in {"sld", "isld"} THEN Quot(0, 100)
    ELSE 0

\* The arguments a layer is built with: a value for each of these.
BuiltFields == LayerFields \ {"sld", "isld"}
\* The molecule Material's sld / isld at construction, for the arguments pars.
MoleculeSld(pars) ==
    apm_to_sld(pars["scattering_length_real"], pars["thickness"],
               pars["area_per_molecule"])
MoleculeIsld(pars) ==
    apm_to_sld(pars["scattering_length_imag"], pars["thickness"],
               pars["area_per_molecule"])
\* Every Parameter of a layer built with the arguments pars in a solvent of
\* sld sol[1] and isld sol[2].
BuiltValue(pars, sol, f) ==
    IF f = "sld" THEN MoleculeSld(pars)
    ELSE IF f = "isld" THEN MoleculeIsld(pars)
    ELSE IF f = "solvated_sld"
         THEN weighted_average(MoleculeSld(pars), sol[1], pars["fraction"])
    ELSE IF f = "solvated_isld"
         THEN weighted_average(MoleculeIsld(pars), sol[2], pars["fraction"])
    ELSE pars[f]

LayerApmValue(p) ==
    IF p[2] = 0 THEN 0
    ELSE BuiltValue([f \in BuiltFields |-> FromPars(p[2], f)],
                    <<SolventValue(SolventSld), SolventValue(SolventIsld)>>, p[3])

\* Value and enabled flag of every Parameter after construction: the
\* dependent of a FunctionalConstraint is disabled by its construction.
ConstructedValue(p) == IF p \in SolventParams THEN SolventValue(p) ELSE LayerApmValue(p)
ConstructedEnabled(p) ==
    p \in SolventParams \/ p[3] \notin {"sld", "isld"} \cup SolvatedFields

\* LayerApm.from_pars('C10H18NO8P', 10.0, D2O, 0.2, 48.2, 3.0), the values of
\* LAYERAPM_DETAILS, as integers: thickness and roughness in angstrom, the
\* area per molecule in tenths, the solvation as the quotient 2/10, the
\* scattering length (4.186 + 0j for the formula) in thousandths.  The
\* quotient of these integers is the sld in hundredths (2093/2410 stands for
\* 0.0086846), so every sld and isld of the example is held in hundredths.
ExamplePars(f) ==
    IF f = "thickness" THEN 10
    ELSE IF f = "roughness" THEN 3
    ELSE IF f = "area_per_molecule" THEN 482
    ELSE IF f = "fraction" THEN Quot(2, 10)
    ELSE IF f = "scattering_length_real" THEN 4186
    ELSE 0

\* The solvents of the example, in its hundredths: D2O (6.36, 0) is 636.
SldScale == 100
ExampleSolventValue(p) ==
    IF p[3] \in {"sld", "isld"}
    THEN Quot(SolventValue(p)[1] * SldScale, SolventValue(p)[2])
    ELSE SolventValue(p)
\* The example layer is layer 1 of assembly A; the other layers are built
\* from the arguments of FromPars, in the same solvent.
ExampleValue(p) ==
    IF p \in SolventParams THEN ExampleSolventValue(p)
    ELSE IF p[2] = 0 THEN 0
    ELSE LET sol == <<ExampleSolventValue(SolventSld), ExampleSolventValue(SolventIsld)>>
         IN IF p[1] = "A" /\ p[2] = 1
            THEN BuiltValue([f \in BuiltFields |-> ExamplePars(f)], sol, p[3])
            ELSE BuiltValue([f \in BuiltFields |-> FromPars(p[2], f)], sol, p[3])

\* LAYERAPM_DETAILS 'molecular_formula', the formula of every layer built.
DefaultFormula == "C10H18NO8P"

\* The name the solvated material is given: formula + '/' + solvent.name.
SolventName == "D2O"
SolventNameOf(s) == IF s = "S" THEN SolventName ELSE "Air"
SolvatedName(formula, s) == formula \o "/" \o SolventNameOf(s)

NoOp == [op |-> "init", a |-> "-", l |-> 0, f |-> "-", v |-> 0, err |-> "none"]

ConstraintInit(n) ==
    /\ limit = n
    /\ val = [p \in Params |-> ConstructedValue(p)]
    /\ en = [p \in Params |-> ConstructedEnabled(p)]
    /\ has = [q \in Asm \X AsmFields |-> FALSE]
    /\ uc = [p \in Params |-> LayerApmConstraints(p)]
    /\ nops = 0
    /\ last = NoOp
    /\ molecular_formula = [q \in Asm \X LayerIx |-> DefaultFormula]
    /\ material_name = [q \in (Asm \cup {ThirdContrast}) \X LayerIx |->
                            SolvatedName(DefaultFormula, "S")]
    /\ solvent = [q \in (Asm \cup {ThirdContrast}) \X LayerIx |-> "S"]

\* --------------------------------------------------------------- operations
\* Parameters that exist: the assembly-level ones only once their setter ran.
Exists(p) == IF p \in AsmParams THEN has[<<p[1], p[3]>>] ELSE TRUE

\* The values the caller writes: one below every minimum, the minimum of the
\* bounded Parameters, and one that no Parameter holds after construction.
WriteVals == {-1, 0, 3}

\* p.value = v by the caller.
Write(p, v) ==
    /\ nops < limit
    /\ Exists(p)
    /\ LET st == SetValue([val |-> val, en |-> en, err |-> "none"], p, v, MaxDepth)
       IN /\ val' = st.val
          /\ en' = st.en
          /\ last' = [op |-> "write", a |-> p[1], l |-> p[2], f |-> p[3],
                      v |-> v, err |-> st.err]
    /\ nops' = nops + 1
    /\ UNCHANGED <<limit, bvars, avars>>
    /\ UNCHANGED <<has, uc>>

\* layer.solvation = v: MaterialSolvated.solvation assigns the value of the
\* fraction Parameter, the one the layer's solvation getter returns.
SetSolvation(a, l, v) ==
    /\ nops < limit
    /\ LET st == SetValue([val |-> val, en |-> en, err |-> "none"],
                          P(a, l, "fraction"), v, MaxDepth)
       IN /\ val' = st.val
          /\ en' = st.en
          /\ last' = [op |-> "solvation", a |-> a, l |-> l, f |-> "fraction",
                      v |-> v, err |-> st.err]
    /\ nops' = nops + 1
    /\ UNCHANGED <<limit, bvars, avars>>
    /\ UNCHANGED <<has, uc>>

\* MaterialMixture._materials_constraints with solvent s, over
\* rs = [val, en, uc, has, err]: the mixture's sld and isld are enabled; the
\* sld constraint is constructed (its dependent disabled), stored under 'sld'
\* by the molecule's sld, the solvent's sld and the fraction, then called;
\* the isld constraint likewise under 'isld'.
MaterialsConstraints(rs, a, l, s, n) ==
    LET c == SolvatedSldConstraint(a, l, s, n)
        ic == SolvatedIsldConstraint(a, l, s, n)
        rs0 == [rs EXCEPT !.en[c.dep] = TRUE, !.en[ic.dep] = TRUE]
        rs1 == [rs0 EXCEPT !.en[c.dep] = FALSE]
        rs2 == Register(Register(Register(rs1, c.ind[1], c), c.ind[2], c), c.ind[3], c)
        rs3 == CallConstraint(rs2, c, MaxDepth)
        rs4 == [rs3 EXCEPT !.en[ic.dep] = FALSE]
        rs5 == Register(Register(Register(rs4, ic.ind[1], ic), ic.ind[2], ic), ic.ind[3], ic)
    IN IF rs3.err # "none" THEN rs3 ELSE CallConstraint(rs5, ic, MaxDepth)

\* layer.solvent = new_solvent: the mixture takes the name of its first
\* material (the formula the layer was built with) + '/' + the name of the
\* new solvent, holds the new solvent and sets its constraints up again.
SetSolvent(a, l, s) ==
    /\ nops < limit
    /\ LET rs == MaterialsConstraints([val |-> val, en |-> en, uc |-> uc, has |-> has,
                                       err |-> "none"], a, l, s, nops + 1)
       IN /\ val' = rs.val /\ en' = rs.en /\ uc' = rs.uc /\ has' = rs.has
          /\ last' = [op |-> "solvent", a |-> a, l |-> l, f |-> s,
                      v |-> 0, err |-> rs.err]
    /\ material_name' = [material_name EXCEPT ![<<a, l>>] = SolvatedName(DefaultFormula, s)]
    /\ solvent' = [solvent EXCEPT ![<<a, l>>] = s]
    /\ nops' = nops + 1
    /\ UNCHANGED <<limit, bvars, molecular_formula>>

Formulas == {"C10H18NO8P", "C32D64"}
ScatteringLength(formula) == IF formula = "C10H18NO8P" THEN <<1, 0>> ELSE <<2, 3>>

\* The molecular_formula setter that leaves the imaginary scattering length.
SetMolecularFormulaRealOnly(a, l, formula) ==
    /\ nops < limit
    /\ LET sl == ScatteringLength(formula)
           st == SetValue([val |-> val, en |-> en, err |-> "none"],
                          P(a, l, "scattering_length_real"), sl[1], MaxDepth)
       IN /\ val' = st.val
          /\ en' = st.en
          /\ last' = [op |-> "molecular_formula", a |-> a, l |-> l, f |-> formula,
                      v |-> 0, err |-> st.err]
          /\ molecular_formula' = [molecular_formula EXCEPT ![<<a, l>>] = formula]
          /\ material_name' = IF st.err = "none"
                              THEN [material_name EXCEPT
                                        ![<<a, l>>] = SolvatedName(formula, solvent[<<a, l>>])]
                              ELSE material_name
    /\ nops' = nops + 1
    /\ UNCHANGED <<limit, bvars, solvent>>
    /\ UNCHANGED <<has, uc>>

\* LayerApm.molecular_formula = formula: the two scattering lengths are
\* written one after the other; an exception out of the first write ends
\* the setter.
SetMolecularFormula(a, l, formula) ==
    /\ nops < limit
    /\ LET sl == ScatteringLength(formula)
           st1 == SetValue([val |-> val, en |-> en, err |-> "none"],
                           P(a, l, "scattering_length_real"), sl[1], MaxDepth)
           st == IF st1.err # "none" THEN st1
                 ELSE SetValue(st1, P(a, l, "scattering_length_imag"), sl[2], MaxDepth)
       IN /\ val' = st.val
          /\ en' = st.en
          /\ last' = [op |-> "molecular_formula", a |-> a, l |-> l, f |-> formula,
                      v |-> 0, err |-> st.err]
          \* self._molecular_formula is assigned first, the name last
          /\ molecular_formula' = [molecular_formula EXCEPT ![<<a, l>>] = formula]
          /\ material_name' = IF st.err = "none"
                              THEN [material_name EXCEPT
                                        ![<<a, l>>] = SolvatedName(formula, solvent[<<a, l>>])]
                              ELSE material_name
    /\ nops' = nops + 1
    /\ UNCHANGED <<limit, bvars, solvent>>
    /\ UNCHANGED <<has, uc>>

\* SurfactantLayer.constrain_apm / conformal_roughness getters: the value
\* read, and whether the read raises KeyError.
MirrorOn(dicts, hasattr, a, f, k1, k2) ==
    /\ hasattr[<<a, f>>]
    /\ LET d == dicts[P(a, 0, f)]
       IN /\ IndexOf(d, k1) # 0 /\ d[IndexOf(d, k1)].enabled
          /\ IndexOf(d, k2) # 0 /\ d[IndexOf(d, k2)].enabled
GetterRaises(dicts, hasattr, a, f, k1, k2) ==
    /\ hasattr[<<a, f>>]
    /\ LET d == dicts[P(a, 0, f)]
       IN IndexOf(d, k1) = 0 \/ (d[IndexOf(d, k1)].enabled /\ IndexOf(d, k2) = 0)

\* The getter answering True as soon as the attribute exists.
conformal_roughness_hasattr_only(a) == has[<<a, "roughness">>]

\* The getter answering True as soon as the attribute exists.
constrain_apm_hasattr_only(a) == has[<<a, "area_per_molecule">>]
constrain_apm(a) == MirrorOn(uc, has, a, "area_per_molecule", "apm1", "apm2")
conformal_roughness(a) == MirrorOn(uc, has, a, "roughness", "roughness1", "roughness2")

\* The body shared by the constrain_apm and conformal_roughness setters, on
\* assembly a and field f, with the constraints keyed k1 and k2.
\* First call (no attribute yet): the assembly Parameter is created with
\* layer1's value, layer2's Parameter is written with layer1's value, the two
\* mirrors are constructed and then registered.  Every call: the two
\* constraints' enabled flags are set to x.
\* The setter with the second mirror constructed on the other assembly's
\* layer2.
CreateMirrorsSharedLayer(rs, a, f, k1, k2) ==
    LET top == P(a, 0, f)
        l1 == P(a, 1, f)
        l2 == P(a, 2, f)
        shared == P(IF a = "A" THEN "B" ELSE "A", 2, f)
        rs1 == [rs EXCEPT !.has[<<a, f>>] = TRUE,
                          !.val[top] = rs.val[l1],
                          !.en[top] = TRUE]
        rs2 == SetValue(rs1, l2, rs1.val[l1], MaxDepth)
        e1 == NewErr(rs2.en, l1, <<top>>)
        rs3 == [rs2 EXCEPT !.en[l1] = FALSE]
    IN IF rs2.err # "none" THEN rs2
       ELSE IF e1 # "none" THEN [rs2 EXCEPT !.err = e1]
       ELSE Register(Register(rs3, top, Mirror(k1, l1, top)), top, Mirror(k2, shared, top))

\* The setter that takes layer2's value as the source: the assembly Parameter
\* is created with it and layer1's Parameter is written with it.
CreateMirrorsFromLayer2(rs, a, f, k1, k2) ==
    LET top == P(a, 0, f)
        l1 == P(a, 1, f)
        l2 == P(a, 2, f)
        rs1 == [rs EXCEPT !.has[<<a, f>>] = TRUE,
                          !.val[top] = rs.val[l2],
                          !.en[top] = TRUE]
        rs2 == SetValue(rs1, l1, rs1.val[l2], MaxDepth)
        e1 == NewErr(rs2.en, l1, <<top>>)
        rs3 == [rs2 EXCEPT !.en[l1] = FALSE]
        e2 == NewErr(rs3.en, l2, <<top>>)
        rs4 == [rs3 EXCEPT !.en[l2] = FALSE]
    IN IF rs2.err # "none" THEN rs2
       ELSE IF e1 # "none" THEN [rs2 EXCEPT !.err = e1]
       ELSE IF e2 # "none" THEN [rs2 EXCEPT !.err = e2]
       ELSE Register(Register(rs4, top, Mirror(k1, l1, top)), top, Mirror(k2, l2, top))

CreateMirrors(rs, a, f, k1, k2) ==
    LET top == P(a, 0, f)
        l1 == P(a, 1, f)
        l2 == P(a, 2, f)
        rs1 == [rs EXCEPT !.has[<<a, f>>] = TRUE,
                          !.val[top] = rs.val[l1],
                          !.en[top] = TRUE]
        rs2 == SetValue(rs1, l2, rs1.val[l1], MaxDepth)
        e1 == NewErr(rs2.en, l1, <<top>>)
        rs3 == [rs2 EXCEPT !.en[l1] = FALSE]
        e2 == NewErr(rs3.en, l2, <<top>>)
        rs4 == [rs3 EXCEPT !.en[l2] = FALSE]
    IN IF rs2.err # "none" THEN rs2
       ELSE IF e1 # "none" THEN [rs2 EXCEPT !.err = e1]
       \* the first mirror, never registered, is collected: its finalizer
       \* enables layer1's Parameter again
       ELSE IF e2 # "none" THEN [rs2 EXCEPT !.err = e2]
       ELSE Register(Register(rs4, top, Mirror(k1, l1, top)), top, Mirror(k2, l2, top))

MirrorSetter(rs, a, f, k1, k2, x) ==
    LET rs1 == IF rs.has[<<a, f>>] THEN rs ELSE CreateMirrors(rs, a, f, k1, k2)
    IN SetEnabled(SetEnabled(rs1, P(a, 0, f), k1, x), P(a, 0, f), k2, x)

Now == [val |-> val, en |-> en, uc |-> uc, has |-> has, err |-> "none"]

\* assembly.constrain_apm = x
SetConstrainApm(a, x) ==
    /\ nops < limit
    /\ LET rs == MirrorSetter(Now, a, "area_per_molecule", "apm1", "apm2", x)
           \* self.area_per_molecule.enabled = x
           rs1 == IF rs.err = "none"
                  THEN [rs EXCEPT !.en[P(a, 0, "area_per_molecule")] = x]
                  ELSE rs
       IN /\ val' = rs1.val /\ en' = rs1.en /\ uc' = rs1.uc /\ has' = rs1.has
          /\ last' = [op |-> "constrain_apm", a |-> a, l |-> 0,
                      f |-> "area_per_molecule",
                      v |-> IF x THEN 1 ELSE 0, err |-> rs1.err]
    /\ nops' = nops + 1
    /\ UNCHANGED <<limit, bvars, avars>>

\* assembly.conformal_roughness = x
SetConformalRoughness(a, x) ==
    /\ nops < limit
    /\ LET rs == MirrorSetter(Now, a, "roughness", "roughness1", "roughness2", x)
       IN /\ val' = rs.val /\ en' = rs.en /\ uc' = rs.uc /\ has' = rs.has
          /\ last' = [op |-> "conformal_roughness", a |-> a, l |-> 0,
                      f |-> "roughness",
                      v |-> IF x THEN 1 ELSE 0, err |-> rs.err]
    /\ nops' = nops + 1
    /\ UNCHANGED <<limit, bvars, avars>>

\* assembly.constrain_solvent_roughness(solvent_roughness)
ConstrainSolventRoughnessOf(a, solvent_roughness) ==
    /\ nops < limit
    /\ LET top == P(a, 0, "roughness")
           raises == GetterRaises(uc, has, a, "roughness", "roughness1", "roughness2")
           \* solvent_roughness.value = self.roughness.value
           rs1 == SetValue(Now, solvent_roughness, val[top], MaxDepth)
           rs2 == AddMirror(rs1, "solvent_roughness", solvent_roughness, top)
           rs == IF raises THEN [Now EXCEPT !.err = "KeyError"]
                 ELSE IF ~conformal_roughness(a) THEN [Now EXCEPT !.err = "ValueError"]
                 ELSE rs2
       IN /\ val' = rs.val /\ en' = rs.en /\ uc' = rs.uc /\ has' = rs.has
          /\ last' = [op |-> "constrain_solvent_roughness", a |-> a, l |-> 0,
                      f |-> "roughness",
                      v |-> IF solvent_roughness = SolventRoughness THEN 0 ELSE 1,
                      err |-> rs.err]
    /\ nops' = nops + 1
    /\ UNCHANGED <<limit, bvars, avars>>
ConstrainSolventRoughness(a) == ConstrainSolventRoughnessOf(a, SolventRoughness)

\* The keyword arguments of constain_multiple_contrast, in the order the
\* method handles them: (layer, field) of each flag.
ContrastFields ==
    <<<<1, "thickness">>, <<2, "thickness">>,
      <<1, "area_per_molecule">>, <<2, "area_per_molecule">>,
      <<1, "fraction">>, <<2, "fraction">>>>

AllFlags == [i \in 1..6 |-> TRUE]
OnlyFlag(k) == [i \in 1..6 |-> i = k]
\* The flag vectors the model calls the method with: the default (all True),
\* layer1_thickness alone and layer1_area_per_molecule alone.
FlagSets == {AllFlags, OnlyFlag(1), OnlyFlag(3)}

\* SurfactantLayer.name, the key a cross-contrast constraint is stored under.
Name(a) == a

RECURSIVE ContrastFrom(_, _, _, _, _)
ContrastFrom(rs, self, other, flags, i) ==
    IF i > 6 \/ rs.err # "none" THEN rs
    ELSE LET lf == ContrastFields[i]
             next == IF flags[i]
                     THEN AddMirror(rs, Name(other), P(self, lf[1], lf[2]),
                                    P(other, lf[1], lf[2]))
                     ELSE rs
         IN ContrastFrom(next, self, other, flags, i + 1)

\* self.constain_multiple_contrast(other, *flags)
ConstainMultipleContrast(self, other, flags) ==
    /\ nops < limit
    /\ LET rs == ContrastFrom(Now, self, other, flags, 1)
       IN /\ val' = rs.val /\ en' = rs.en /\ uc' = rs.uc /\ has' = rs.has
          /\ last' = [op |-> "constain_multiple_contrast", a |-> self, l |-> 0,
                      f |-> other, v |-> Cardinality({i \in 1..6 : flags[i]}),
                      err |-> rs.err]
    /\ nops' = nops + 1
    /\ UNCHANGED <<limit, bvars, avars>>

\* ---------------------------------------------------- calculator binding
\* The entities of one Model: two Materials, two Layers (layer l1 is made of
\* m1, l2 of m2), two assemblies (items) and the Model itself.  Every uid is
\* the entity's name here.
Mats == {"m1", "m2"}
Lays == {"l1", "l2"}
Items == {"i1", "i2"}
ModelEnt == "model1"
Ents == Mats \cup Lays \cup Items \cup {ModelEnt}
MaterialOf(l) == IF l = "l1" THEN "m1" ELSE "m2"

\* Layers one assembly holds at most, and assemblies the Model holds at most.
MaxLayers == 3
MaxItems == 2

\* Refnx._material_link, _layer_link, _item_link, _model_link: the abstract
\* attribute name -> the calculator's name.
MaterialLink == ("sld" :> "real") @@ ("isld" :> "imag")
LayerLinkBothRough == ("thickness" :> "rough") @@ ("roughness" :> "rough")
LayerLink == ("thickness" :> "thick") @@ ("roughness" :> "rough")
ItemLink == ("repetitions" :> "repeats")
ModelLink == ("scale" :> "scale") @@ ("background" :> "bkg") @@ ("resolution" :> "dq")

LinkOf(e) ==
    IF e \in Mats THEN MaterialLink
    ELSE IF e \in Lays THEN LayerLink
    ELSE IF e \in Items THEN ItemLink
    ELSE ModelLink

\* The Parameters the interface links: (entity, abstract attribute).
BPar == {<<e, a>> : e \in Ents, a \in {"sld", "isld", "thickness", "roughness",
                                       "repetitions", "scale", "background",
                                       "resolution"}}
Linked == {q \in BPar : q[2] \in DOMAIN LinkOf(q[1])}

\* Calculator storage: what create_material, create_layer, create_item and
\* create_model put there, and the empty storage.
\* rep: the stored item is a repeating multi layer (create_item stores a
\* plain one).
Absent(names) ==
    [on |-> FALSE, at |-> [n \in names |-> 0], of |-> "none", seq |-> <<>>, rep |-> FALSE]
Fresh(names) ==
    [on |-> TRUE, at |-> [n \in names |-> 0], of |-> "none", seq |-> <<>>, rep |-> FALSE]
StoreNames(e) ==
    IF e \in Mats THEN {"real", "imag"}
    ELSE IF e \in Lays THEN {"thick", "rough"}
    ELSE IF e \in Items THEN {"repeats"}
    ELSE {"scale", "bkg", "dq"}
EmptyStore == [e \in Ents |-> Absent(StoreNames(e))]

\* One calculator call on bs = [store, err, calls]: a call after an
\* exception is not made; a call on a uid the storage lacks raises KeyError.
Call(bs, ok, new) ==
    IF bs.err # "none" THEN bs
    ELSE IF ~ok THEN [bs EXCEPT !.err = "KeyError", !.calls = @ + 1]
    ELSE [bs EXCEPT !.store = new, !.calls = @ + 1]

CreateEntity(bs, e) ==
    Call(bs, TRUE, [bs.store EXCEPT ![e] = Fresh(StoreNames(e))])
\* calculator.assign_material_to_layer(material, layer)
AssignMaterial(bs, m, l) ==
    Call(bs, bs.store[m].on /\ bs.store[l].on, [bs.store EXCEPT ![l].of = m])
\* calculator.add_layer_to_item(layer, item): the layer is appended
AddLayer(bs, l, i) ==
    Call(bs, bs.store[l].on /\ bs.store[i].on,
         [bs.store EXCEPT ![i].seq = Append(@, l)])
\* calculator.add_item(item): the item is appended to the model's structure
AddItem(bs, i) ==
    Call(bs, bs.store[i].on /\ bs.store[ModelEnt].on,
         [bs.store EXCEPT ![ModelEnt].seq = Append(@, i)])

FirstIndex(q, x) ==
    IF \E k \in 1..Len(q) : q[k] = x
    THEN CHOOSE k \in 1..Len(q) : q[k] = x /\ \A j \in 1..(k - 1) : q[j] # x
    ELSE 0
RemoveAt(q, k) == [j \in 1..(Len(q) - 1) |-> IF j < k THEN q[j] ELSE q[j + 1]]

\* The positions of uid x in sequence q, and the positions a removal of x can
\* take: 0 stands for "x is not there".
Occurrences(q, x) == {k \in 1..Len(q) : q[k] = x}
Picks(q, x) == IF Occurrences(q, x) = {} THEN {0} ELSE Occurrences(q, x)

\* calculator.remove_layer_from_item(x, holder) / remove_item(x): the call
\* names the uid only; the occurrence at position k of the holder's sequence
\* is deleted (k = 0: there is none, the call fails).  Which occurrence is
\* taken when the uid is held more than once is left open: any k of Picks.
RemoveFrom(bs, x, holder, k) ==
    IF bs.err # "none" THEN bs
    ELSE IF ~(bs.store[x].on /\ bs.store[holder].on)
         THEN [bs EXCEPT !.err = "KeyError", !.calls = @ + 1]
    ELSE IF k = 0
         THEN [bs EXCEPT !.err = "ValueError", !.calls = @ + 1]
    ELSE [bs EXCEPT !.store[holder].seq = RemoveAt(@, k), !.calls = @ + 1]

RECURSIVE AddLayers(_, _, _, _), AddItems(_, _, _)
AddLayers(bs, ls, k, i) ==
    IF k > Len(ls) THEN bs ELSE AddLayers(AddLayer(bs, ls[k], i), ls, k + 1, i)
AddItems(bs, is, k) ==
    IF k > Len(is) THEN bs ELSE AddItems(AddItem(bs, is[k]), is, k + 1)

\* create(model) that creates the model and adds none of its items.
CreateModelAlone(bs, t, e) ==
    IF e \in Mats THEN CreateEntity(bs, e)
    ELSE IF e \in Lays THEN AssignMaterial(CreateEntity(bs, e), MaterialOf(e), e)
    ELSE IF e \in Items THEN AddLayers(CreateEntity(bs, e), t.layers[e], 1, e)
    ELSE CreateEntity(bs, e)

\* Refnx.create(model): the calculator object is created, then a Layer gets
\* its material assigned, an assembly its layers added in the tree's order, a
\* Model its assemblies added in the tree's order.
Create(bs, t, e) ==
    IF e \in Mats THEN CreateEntity(bs, e)
    ELSE IF e \in Lays THEN AssignMaterial(CreateEntity(bs, e), MaterialOf(e), e)
    ELSE IF e \in Items THEN AddLayers(CreateEntity(bs, e), t.layers[e], 1, e)
    ELSE AddItems(CreateEntity(bs, e), t.items, 1)

\* The key of the ItemContainer create returns.
ContainerKey(e) == IF e = ModelEnt THEN "model" ELSE e
\* calculator.update_material / update_layer / update_item / update_model:
\* one named attribute of a stored object is set.
Update(bs, e, name, v) ==
    IF bs.err # "none" THEN bs
    ELSE IF ~bs.store[e].on THEN [bs EXCEPT !.err = "KeyError"]
    ELSE [bs EXCEPT !.store[e].at[name] = v]
\* calculator.get_material_value / get_layer_value / ...: read through the
\* ItemContainer's name conversion.
ReadBackend(st, q) == st[q[1]].at[LinkOf(q[1])[q[2]]]

\* The keys of a link table in the order the dict holds them.
LinkOrder(e) ==
    IF e \in Mats THEN <<"sld", "isld">>
    ELSE IF e \in Lays THEN <<"thickness", "roughness">>
    ELSE IF e \in Items THEN <<"repetitions">>
    ELSE <<"scale", "background", "resolution">>

\* InterfaceFactoryTemplate.generate_bindings(entity): create, then every
\* linked Parameter gets its callback and its raw_value is pushed through it.
RECURSIVE PushValues(_, _, _, _)
PushValues(bs, values, e, k) ==
    IF k > Len(LinkOrder(e)) THEN bs
    ELSE PushValues(Update(bs, e, LinkOf(e)[LinkOrder(e)[k]],
                           values[<<e, LinkOrder(e)[k]>>]),
                    values, e, k + 1)
GenerateBindings(bs, t, values, e) == PushValues(Create(bs, t, e), values, e, 1)

\* Children are bound before the entity that refers to them.
BindOrder == <<"m1", "m2", "l1", "l2", "i1", "i2", ModelEnt>>
RECURSIVE BindFrom(_, _, _, _, _)
BindFrom(bs, t, values, S, k) ==
    IF k > Len(BindOrder) THEN bs
    ELSE BindFrom(IF BindOrder[k] \in S THEN GenerateBindings(bs, t, values, BindOrder[k])
                  ELSE bs,
                  t, values, S, k + 1)
Bind(bs, t, values, S) == BindFrom(bs, t, values, S, 1)

Range(q) == {q[k] : k \in 1..Len(q)}
SubtreeLayer(l) == {l, MaterialOf(l)}
SubtreeItem(t, i) ==
    {i} \cup UNION {SubtreeLayer(l) : l \in Range(t.layers[i])}
SubtreeModel(t) ==
    {ModelEnt} \cup UNION {SubtreeItem(t, i) : i \in Range(t.items)}

Backends == {"refnx", "refl1d"}
\* InterfaceTemplate._interfaces, the registered interfaces in order, and the
\* one InterfaceFactory.__init__ leaves selected: the template's constructor
\* creates the first of them.
Registered == <<"refnx", "refl1d">>
InterfaceFactoryInitUnselected == "none"
InterfaceFactoryInit == IF Len(Registered) > 0 THEN Registered[1] ELSE "none"
\* The factories a Model is given as its interface: InterfaceFactory, and the
\* CalculatorFactory the fitting test assigns, whose active calculator is
\* its own and is called as the interface contract says.
Factories == {"InterfaceFactory", "CalculatorFactory"}
CalculatorFactoryInit == "calculator"
FactoryInit(factory) ==
    IF factory = "InterfaceFactory" THEN InterfaceFactoryInit ELSE CalculatorFactoryInit
FactoryOf(b) == IF b \in Backends THEN "InterfaceFactory" ELSE "CalculatorFactory"
NoHist ==
    [op |-> "init", x |-> "-", y |-> "-", k |-> 0, err |-> "none", calls |-> 0,
     pre |-> <<>>, undo |-> FALSE, out |-> <<>>]
Did(op, x, y, k, bs) ==
    [op |-> op, x |-> x, y |-> y, k |-> k, err |-> bs.err, calls |-> bs.calls,
     pre |-> <<>>, undo |-> FALSE, out |-> <<>>]
Begin(st) == [store |-> st, err |-> "none", calls |-> 0]

\* The Model as constructed without an interface: assembly i1 holds l1 and
\* l2, assembly i2 holds l2, the Model holds i1.
TreeInit == [layers |-> ("i1" :> <<"l1", "l2">>) @@ ("i2" :> <<"l2">>), items |-> <<"i1">>]
PvInit ==
    [q \in Linked |->
        IF q[2] \in {"sld", "roughness"} THEN 2
        ELSE IF q[2] \in {"thickness", "repetitions", "scale", "resolution"} THEN 1
        ELSE 0]
Unbound ==
    /\ tree = TreeInit
    /\ pv = PvInit
    /\ iface = "none"
    /\ store = EmptyStore
    /\ bnd = [e \in Ents |-> FALSE]
    /\ hist = NoHist
\* The same Model constructed with interface = InterfaceFactory().
Bound ==
    /\ tree = TreeInit
    /\ pv = PvInit
    /\ iface = InterfaceFactoryInit
    /\ store = Bind(Begin(EmptyStore), TreeInit, PvInit, SubtreeModel(TreeInit)).store
    /\ bnd = [e \in Ents |-> e \in SubtreeModel(TreeInit)]
    /\ hist = NoHist

Step ==
    /\ nops < limit /\ nops' = nops + 1
    /\ UNCHANGED <<val, en, has, uc, limit, last, avars>>

\* model.interface = factory(): the factory starts with its first
\* interface and everything under the Model is bound to it.
SetInterface(factory) ==
    /\ Step /\ iface = "none"
    /\ LET bs == Bind(Begin(EmptyStore), tree, pv, SubtreeModel(tree)) IN
        /\ iface' = FactoryInit(factory)
        /\ store' = bs.store
        /\ bnd' = [e \in Ents |-> e \in SubtreeModel(tree)]
        /\ hist' = Did("set_interface", FactoryInit(factory), factory, 0, bs)
    /\ UNCHANGED <<tree, pv>>

\* switch_interface(b), b an interface of the factory the Model holds: a new
\* interface object, hence an empty calculator, and every bound entity is
\* bound again from its Parameters' values.
SwitchInterface(b) ==
    /\ Step /\ iface # "none" /\ FactoryOf(b) = FactoryOf(iface)
    /\ LET bs == Bind(Begin(EmptyStore), tree, pv, {e \in Ents : bnd[e]}) IN
        /\ iface' = b
        /\ store' = bs.store
        /\ hist' = Did("switch", b, "-", 0, bs)
    /\ UNCHANGED <<tree, pv, bnd>>

BWriteTargets == {<<"m1", "sld">>, <<"l1", "thickness">>, <<ModelEnt, "scale">>}
BWriteVals == {3}
\* parameter.value = v on a linked Parameter: the value is stored and the
\* callback, when there is one, sets it in the calculator.
WriteParam(q, v) ==
    /\ Step
    /\ LET bs == IF bnd[q[1]] THEN Update(Begin(store), q[1], LinkOf(q[1])[q[2]], v)
                 ELSE Begin(store) IN
        /\ pv' = [pv EXCEPT ![q] = v]
        /\ store' = bs.store
        /\ hist' = Did("write", q[1], q[2], v, bs)
    /\ UNCHANGED <<tree, iface, bnd>>

\* assembly.add_layer(layer): appended to the tree, an assembly holding a
\* layer once; under an interface what is not bound under the layer is bound
\* and the layer added to the item.
TreeAddLayer(i, l) ==
    /\ Step /\ Len(tree.layers[i]) < MaxLayers /\ Occurrences(tree.layers[i], l) = {}
    /\ LET new == {e \in SubtreeLayer(l) : ~bnd[e]}
           bs == IF bnd[i]
                 THEN AddLayer(Bind(Begin(store), tree, pv, new), l, i)
                 ELSE Begin(store) IN
        /\ tree' = [tree EXCEPT !.layers[i] = Append(@, l)]
        /\ store' = bs.store
        /\ bnd' = IF bnd[i] THEN [e \in Ents |-> bnd[e] \/ e \in new] ELSE bnd
        /\ hist' = Did("tree_add_layer", l, i, 0, bs)
    /\ UNCHANGED <<pv, iface>>

\* unlink(layer, assembly): the interface removes the layer's uid from the
\* calculator's item, then the layer is deleted from the tree.
TreeRemoveLayer(i, l) ==
    /\ Step /\ Occurrences(tree.layers[i], l) # {}
    /\ \E k \in Picks(store[i].seq, l) :
        LET bs == IF bnd[i] THEN RemoveFrom(Begin(store), l, i, k)
                  ELSE Begin(store) IN
        /\ tree' = IF bs.err = "none"
                   THEN [tree EXCEPT !.layers[i] = RemoveAt(@, FirstIndex(@, l))] ELSE tree
        /\ store' = bs.store
        /\ hist' = Did("tree_remove_layer", l, i, 0, bs)
    /\ UNCHANGED <<pv, iface, bnd>>

\* model.add_item(item): appended to the tree, the Model holding an item
\* once; under an interface what is not bound under the item is bound and
\* the item added to the model.
TreeAddItem(i) ==
    /\ Step /\ Len(tree.items) < MaxItems /\ Occurrences(tree.items, i) = {}
    /\ LET new == {e \in SubtreeItem(tree, i) : ~bnd[e]}
           bs == IF bnd[ModelEnt]
                 THEN AddItem(Bind(Begin(store), tree, pv, new), i)
                 ELSE Begin(store) IN
        /\ tree' = [tree EXCEPT !.items = Append(@, i)]
        /\ store' = bs.store
        /\ bnd' = IF bnd[ModelEnt] THEN [e \in Ents |-> bnd[e] \/ e \in new] ELSE bnd
        /\ hist' = Did("tree_add_item", i, ModelEnt, 0, bs)
    /\ UNCHANGED <<pv, iface>>

\* unlink(item, model)
TreeRemoveItem(i) ==
    /\ Step /\ Occurrences(tree.items, i) # {}
    /\ \E k \in Picks(store[ModelEnt].seq, i) :
        LET bs == IF bnd[ModelEnt] THEN RemoveFrom(Begin(store), i, ModelEnt, k)
                  ELSE Begin(store) IN
        /\ tree' = IF bs.err = "none"
                   THEN [tree EXCEPT !.items = RemoveAt(@, FirstIndex(@, i))] ELSE tree
        /\ store' = bs.store
        /\ hist' = Did("tree_remove_item", i, ModelEnt, 0, bs)
    /\ UNCHANGED <<pv, iface, bnd>>

\* The methods of the Refnx interface called on interface() directly.
Direct(op, x, y, bs) ==
    /\ Step
    /\ store' = bs.store
    /\ hist' = Did(op, x, y, 0, bs)
    /\ UNCHANGED <<tree, pv, iface, bnd>>

\* reset_storage(): one calculator call, the storage is emptied.
ResetStorage == Direct("reset_storage", "-", "-", Call(Begin(store), TRUE, EmptyStore))
\* create(entity): the key of the ItemContainer returned is recorded.
CreateCall(e) == Direct("create", e, ContainerKey(e), Create(Begin(store), tree, e))
AssignMaterialToLayer(m, l) ==
    Direct("assign_material_to_layer", m, l, AssignMaterial(Begin(store), m, l))
AddLayerToItem(l, i) ==
    /\ Step
    /\ LET bs == AddLayer(Begin(store), l, i) IN
        /\ store' = bs.store
        /\ hist' = [Did("add_layer_to_item", l, i, 0, bs) EXCEPT !.pre = store[i].seq]
    /\ UNCHANGED <<tree, pv, iface, bnd>>
RemoveLayerFromItem(l, i) ==
    /\ Step
    /\ \E k \in Picks(store[i].seq, l) :
       LET bs == RemoveFrom(Begin(store), l, i, k) IN
        /\ store' = bs.store
        /\ hist' = [Did("remove_layer_from_item", l, i, 0, bs) EXCEPT
                      !.pre = hist.pre,
                      !.undo = /\ hist.op = "add_layer_to_item" /\ hist.err = "none"
                               /\ hist.x = l /\ hist.y = i]
    /\ UNCHANGED <<tree, pv, iface, bnd>>
\* change_item_to_repeating_multi_layer(item_id, old_id): one calculator call;
\* the stored item becomes a repeating multi layer under the same uid, with
\* the layers and values it holds, and old_id, the entry it stands for in the
\* model's structure, keeps resolving.
ChangeItemToRepeatingMultiLayer(item_id, old_id) ==
    Direct("change_item_to_repeating_multi_layer", item_id, old_id,
           Call(Begin(store), store[item_id].on /\ store[old_id].on,
                [store EXCEPT ![item_id].rep = TRUE]))
AddItemToModel(i) == Direct("add_item_to_model", i, ModelEnt, AddItem(Begin(store), i))
RemoveItemFromModel(i) ==
    \E k \in Picks(store[ModelEnt].seq, i) :
        Direct("remove_item_from_model", i, ModelEnt, RemoveFrom(Begin(store), i, ModelEnt, k))

\* The methods of InterfaceFactory: self() is the active interface object,
\* None when there is none.
\* Positional arguments Refnx.sld_profile takes besides self, and the number
\* InterfaceFactory.sld_profile passes; the other interfaces take the
\* model's uid.
SldProfileParams == 0
SldProfileArgs == 1
Accepts(b) == IF b = "refnx" THEN SldProfileParams ELSE SldProfileArgs

\* The calculator's profile of the stored model: one z and one sld per point.
ProfilePoints == 2
SldProfile(st) == <<ProfilePoints, ProfilePoints>>

FactoryResetStorageAndTree ==
    /\ Step
    /\ store' = EmptyStore
    /\ tree' = [tree EXCEPT !.items = <<>>]
    /\ hist' = Did("reset_storage", iface, "-", 0, Call(Begin(store), TRUE, EmptyStore))
    /\ UNCHANGED <<pv, iface, bnd>>

\* InterfaceFactory.reset_storage
FactoryResetStorage ==
    /\ Step
    /\ LET bs == IF iface = "none"
                 THEN [Begin(store) EXCEPT !.err = "AttributeError"]
                 ELSE Call(Begin(store), TRUE, EmptyStore) IN
        /\ store' = bs.store
        /\ hist' = Did("reset_storage", iface, "-", 0, bs)
    /\ UNCHANGED <<tree, pv, iface, bnd>>

\* InterfaceFactory.sld_profile(model_id)
FactorySldProfile(model_id) ==
    /\ Step
    /\ LET err == IF iface = "none" THEN "AttributeError"
                  ELSE IF Accepts(iface) # SldProfileArgs THEN "TypeError"
                  ELSE IF ~store[ModelEnt].on THEN "KeyError"
                  ELSE "none" IN
        hist' = [Did("sld_profile", model_id, iface, 0,
                     [Begin(store) EXCEPT !.err = err]) EXCEPT
                   !.out = IF err = "none" THEN SldProfile(store) ELSE <<>>]
    /\ UNCHANGED <<tree, pv, iface, store, bnd>>

\* Fitter(model).fit(data): the reflectivity is computed through fit_func
\* (the calculator needs its model), then the profile is asked of the
\* interface with the model's uid, as InterfaceFactory.sld_profile passes it;
\* an exception ends the fit without a result.
FitResults == <<"R_0_model", "SLD_0">>
Fit ==
    /\ Step /\ iface # "none"
    /\ LET err == IF ~store[ModelEnt].on THEN "KeyError"
                  ELSE IF Accepts(iface) # SldProfileArgs THEN "TypeError"
                  ELSE "none" IN
        hist' = [Did("fit", ModelEnt, iface, 0, [Begin(store) EXCEPT !.err = err]) EXCEPT
                   !.out = IF err = "none" THEN FitResults ELSE <<>>]
    /\ UNCHANGED <<tree, pv, iface, store, bnd>>

\* ----------------------------------------------------------- specifications
\* One LayerApm: every Parameter of layer 1 of A is written, its solvation is
\* assigned, and it is given another solvent; so is the layer built last,
\* whose constraints the shared solvent's Parameters still hold.
LayerTargets == {P("A", 1, f) : f \in LayerFields}
NextLayer ==
    \/ \E p \in LayerTargets, v \in WriteVals : Write(p, v)
    \/ \E v \in WriteVals : SetSolvation("A", 1, v)
    \/ \E q \in {<<"A", 1>>, BuiltLast}, s \in Solvents : SetSolvent(q[1], q[2], s)
InitLayer == ConstraintInit(MaxOps) /\ Unbound
SpecLayer == InitLayer /\ [][NextLayer]_vars

\* Two SurfactantLayers, their area-per-molecule constraint and the
\* cross-contrast constraints on the area per molecule.
ApmTargets == {P(a, l, "area_per_molecule") : a \in Asm, l \in 0..2}
ApmFlagSets == {OnlyFlag(3), OnlyFlag(4)}
Init == ConstraintInit(MaxOps) /\ Unbound
Next ==
    \/ \E a \in Asm, x \in BOOLEAN : SetConstrainApm(a, x)
    \/ \E self \in Asm, other \in Asm, flags \in ApmFlagSets :
           ConstainMultipleContrast(self, other, flags)
    \/ \E p \in ApmTargets, v \in WriteVals : Write(p, v)
Spec == Init /\ [][Next]_vars

\* Two SurfactantLayers, conformal roughness and the solvent roughness.
RoughTargets == {P(a, l, "roughness") : a \in Asm, l \in 0..2} \cup {SolventRoughness}
NextRough ==
    \/ \E a \in Asm, x \in BOOLEAN : SetConformalRoughness(a, x)
    \/ \E a \in Asm : ConstrainSolventRoughness(a)
    \/ \E p \in RoughTargets, v \in WriteVals : Write(p, v)
InitRough == ConstraintInit(MaxOps) /\ Unbound
SpecRough == InitRough /\ [][NextRough]_vars

\* One SurfactantLayer whose two constraints are switched on, off and on.
ToggleTargets == {P("A", l, f) : l \in 0..2, f \in AsmFields}
NextToggle ==
    \/ \E x \in BOOLEAN : SetConstrainApm("A", x)
    \/ \E x \in BOOLEAN : SetConformalRoughness("A", x)
    \/ \E p \in ToggleTargets, v \in WriteVals : Write(p, v)
InitToggle == ConstraintInit(MaxToggleOps) /\ Unbound
SpecToggle == InitToggle /\ [][NextToggle]_vars

\* Two SurfactantLayers constrained to one another across contrasts.
ContrastTargets == {P(a, 1, f) : a \in Asm, f \in {"thickness", "area_per_molecule"}}
NextContrast ==
    \/ \E self \in Asm, other \in Asm, flags \in FlagSets :
           ConstainMultipleContrast(self, other, flags)
    \/ \E p \in ContrastTargets, v \in WriteVals : Write(p, v)
InitContrast == ConstraintInit(MaxOps) /\ Unbound
SpecContrast == InitContrast /\ [][NextContrast]_vars

\* A Model whose tree is edited, whose Parameters are written and whose
\* interface is assigned and switched.
NextBind ==
    \/ \E factory \in Factories : SetInterface(factory)
    \/ \E b \in Backends \cup {CalculatorFactoryInit} : SwitchInterface(b)
    \/ \E q \in BWriteTargets, v \in BWriteVals : WriteParam(q, v)
    \/ \E i \in Items, l \in Lays : TreeAddLayer(i, l)
    \/ \E i \in Items, l \in Lays : TreeRemoveLayer(i, l)
    \/ \E i \in Items : TreeAddItem(i)
    \/ \E i \in Items : TreeRemoveItem(i)
InitBind == ConstraintInit(MaxBindOps) /\ Unbound
SpecBind == InitBind /\ [][NextBind]_vars

\* A bound Model on whose interface the methods are called directly.
NextInterface ==
    \/ ResetStorage
    \/ \E e \in Ents : CreateCall(e)
    \/ \E m \in Mats, l \in Lays : AssignMaterialToLayer(m, l)
    \/ \E l \in Lays, i \in Items : AddLayerToItem(l, i)
    \/ \E l \in Lays, i \in Items : RemoveLayerFromItem(l, i)
    \/ \E i \in Items : AddItemToModel(i)
    \/ \E i \in Items : RemoveItemFromModel(i)
    \/ \E i \in Items, old \in Items : ChangeItemToRepeatingMultiLayer(i, old)
InitInterface == ConstraintInit(MaxOps) /\ Bound
SpecInterface == InitInterface /\ [][NextInterface]_vars

\* A Model bound through an InterfaceFactory whose methods are called.
NextFactory ==
    \/ \E b \in Backends : SwitchInterface(b)
    \/ FactoryResetStorage
    \/ FactorySldProfile(ModelEnt)
    \/ \E q \in BWriteTargets, v \in BWriteVals : WriteParam(q, v)
    \/ \E i \in Items, l \in Lays : TreeAddLayer(i, l)
InitFactory == ConstraintInit(MaxOps) /\ Bound
SpecFactory == InitFactory /\ [][NextFactory]_vars

\* One SurfactantLayer whose Parameters, all created fixed, are written by
\* the caller, by the molecular_formula setter and by the two setters.
FixedTargets ==
    {P("A", l, f) : l \in LayerIx,
                    f \in {"area_per_molecule", "roughness", "scattering_length_real"}}
NextFixed ==
    \/ \E p \in FixedTargets, v \in WriteVals : Write(p, v)
    \/ \E l \in LayerIx, formula \in Formulas : SetMolecularFormula("A", l, formula)
    \/ \E l \in LayerIx, s \in Solvents : SetSolvent("A", l, s)
    \/ \E x \in BOOLEAN : SetConstrainApm("A", x)
    \/ \E x \in BOOLEAN : SetConformalRoughness("A", x)
InitFixed == ConstraintInit(MaxOps) /\ Unbound
SpecFixed == InitFixed /\ [][NextFixed]_vars

\* Two SurfactantLayers on which only the constraint-installing calls are
\* made: the two setters, constrain_solvent_roughness and
\* constain_multiple_contrast.
NextWriters ==
    \/ \E a \in Asm, x \in BOOLEAN : SetConstrainApm(a, x)
    \/ \E a \in Asm, x \in BOOLEAN : SetConformalRoughness(a, x)
    \/ \E a \in Asm : ConstrainSolventRoughness(a)
    \/ \E self \in Asm, other \in Asm, flags \in FlagSets :
           ConstainMultipleContrast(self, other, flags)
InitWriters == ConstraintInit(MaxOps) /\ Unbound
SpecWriters == InitWriters /\ [][NextWriters]_vars

\* The LayerApm of the example: its area per molecule is set to 60.0 (600
\* tenths), and its thickness, roughness and real scattering length are
\* written as well.
ExampleTargets ==
    {P("A", 1, f) : f \in {"thickness", "roughness", "area_per_molecule",
                           "scattering_length_real"}}
ExampleWriteVals == {600, 20}
NextExample == \E p \in ExampleTargets, v \in ExampleWriteVals : Write(p, v)
InitExample ==
    /\ limit = MaxOps
    /\ val = [p \in Params |-> ExampleValue(p)]
    /\ en = [p \in Params |-> ConstructedEnabled(p)]
    /\ has = [q \in Asm \X AsmFields |-> FALSE]
    /\ uc = [p \in Params |-> LayerApmConstraints(p)]
    /\ nops = 0
    /\ last = NoOp
    /\ molecular_formula = [q \in Asm \X LayerIx |-> DefaultFormula]
    /\ material_name = [q \in (Asm \cup {ThirdContrast}) \X LayerIx |->
                            SolvatedName(DefaultFormula, "S")]
    /\ solvent = [q \in (Asm \cup {ThirdContrast}) \X LayerIx |-> "S"]
    /\ Unbound
SpecExample == InitExample /\ [][NextExample]_vars

\* Two SurfactantLayers constrained to one another in both directions on
\* layer1's area per molecule, with the assembly-level Parameter written.
NextCycle ==
    \/ \E a \in Asm, x \in BOOLEAN : SetConstrainApm(a, x)
    \/ \E self \in Asm, other \in Asm : ConstainMultipleContrast(self, other, OnlyFlag(3))
    \/ \E a \in Asm : Write(P(a, 0, "area_per_molecule"), 3)
InitCycle == ConstraintInit(MaxCycleOps) /\ Unbound
SpecCycle == InitCycle /\ [][NextCycle]_vars

\* A Model whose tree is edited, that is given its interface and fitted.
NextFit ==
    \/ \E factory \in Factories : SetInterface(factory)
    \/ Fit
    \/ \E b \in Backends \cup {CalculatorFactoryInit} : SwitchInterface(b)
    \/ \E i \in Items, l \in Lays : TreeAddLayer(i, l)
    \/ \E i \in Items, l \in Lays : TreeRemoveLayer(i, l)
    \/ \E i \in Items : TreeAddItem(i)
    \/ \E i \in Items : TreeRemoveItem(i)
InitFit == ConstraintInit(MaxBindOps) /\ Unbound
SpecFit == InitFit /\ [][NextFit]_vars

\* One SurfactantLayer with conformal roughness, handed the roughness
\* Parameter of one layer and of another, and its roughness written.
SolventTargets == {P("A", 0, "roughness"), SolventRoughness}
NextSolvent ==
    \/ \E x \in BOOLEAN : SetConformalRoughness("A", x)
    \/ \E p \in {SolventRoughness, SolventRoughness2} : ConstrainSolventRoughnessOf("A", p)
    \/ \E p \in SolventTargets, v \in WriteVals : Write(p, v)
InitSolvent == ConstraintInit(MaxToggleOps) /\ Unbound
SpecSolvent == InitSolvent /\ [][NextSolvent]_vars

\* Three SurfactantLayers: A and B are constrained to the third one, whose
\* layer1 thickness and area per molecule are written.
ThirdFlagSets == {OnlyFlag(1), OnlyFlag(3)}
ThirdTargets == {P(ThirdContrast, 1, f) : f \in {"thickness", "area_per_molecule"}}
NextThird ==
    \/ \E self \in Asm, flags \in ThirdFlagSets :
           ConstainMultipleContrast(self, ThirdContrast, flags)
    \/ \E p \in ThirdTargets, v \in WriteVals : Write(p, v)
InitThird == ConstraintInit(MaxOps) /\ Unbound
SpecThird == InitThird /\ [][NextThird]_vars

\* ------------------------------------------------------------------ claims
WroteTo(l, f) == last.op = "write" /\ last.l = l /\ last.f = f
Returned == last.err = "none"
SldOf(a, l) ==
    apm_to_sld(val[P(a, l, "scattering_length_real")], val[P(a, l, "thickness")],
               val[P(a, l, "area_per_molecule")])
IsldOf(a, l) ==
    apm_to_sld(val[P(a, l, "scattering_length_imag")], val[P(a, l, "thickness")],
               val[P(a, l, "area_per_molecule")])
Consistent(a, l) ==
    /\ val[P(a, l, "thickness")] * val[P(a, l, "area_per_molecule")] # 0
    /\ val[P(a, l, "sld")] = SldOf(a, l)
    /\ val[P(a, l, "isld")] = IsldOf(a, l)

\* C1: right after construction, and whenever a write to thickness,
\* area_per_molecule, scattering_length_real or scattering_length_imag of a
\* LayerApm has returned, the material's sld is apm_to_sld(scattering_length_real,
\* thickness, area_per_molecule) and its isld is apm_to_sld(scattering_length_imag,
\* thickness, area_per_molecule).
C1_SldFollowsRule ==
    /\ last.op = "init" => \A a \in Asm, l \in LayerIx : Consistent(a, l)
    /\ ( /\ last.op = "write" /\ Returned /\ last.l # 0
         /\ last.f \in {"thickness", "area_per_molecule",
                        "scattering_length_real", "scattering_length_imag"} )
       => Consistent(last.a, last.l)

\* A write to the thickness has returned and the sld is no longer the one the
\* layer was constructed with.
C1_Witness ==
    /\ WroteTo(1, "thickness") /\ Returned /\ last.a = "A"
    /\ val[P("A", 1, "sld")] # LayerApmValue(P("A", 1, "sld"))
    /\ val[P("A", 1, "isld")] # LayerApmValue(P("A", 1, "isld"))

\* The setter named by a field, and the keys of its two mirrors.
SetterOf(f) == IF f = "area_per_molecule" THEN "constrain_apm" ELSE "conformal_roughness"
Key1(f) == IF f = "area_per_molecule" THEN "apm1" ELSE "roughness1"
Key2(f) == IF f = "area_per_molecule" THEN "apm2" ELSE "roughness2"
\* The assembly's mirrors on field f exist and are switched off.
SwitchedOff(a, f) ==
    /\ has[<<a, f>>]
    /\ ~GetterRaises(uc, has, a, f, Key1(f), Key2(f))
    /\ ~MirrorOn(uc, has, a, f, Key1(f), Key2(f))
LayersFollow(vals, a, f) ==
    /\ vals[P(a, 1, f)] = vals[P(a, 0, f)]
    /\ vals[P(a, 2, f)] = vals[P(a, 0, f)]

\* C2: with constrain_apm (conformal_roughness) switched off after having been
\* on, a write to the assembly-level Parameter leaves both layers' Parameters
\* unchanged, and switching it on again makes both layers' Parameters equal to
\* the assembly-level one before the assignment returns.
C2_DisableFreezesEnableSnaps ==
    [][\A f \in AsmFields :
          SwitchedOff("A", f) =>
            /\ ( last'.op = "write" /\ last'.a = "A" /\ last'.l = 0 /\ last'.f = f )
               => ( /\ val'[P("A", 1, f)] = val[P("A", 1, f)]
                    /\ val'[P("A", 2, f)] = val[P("A", 2, f)] )
            /\ ( last'.op = SetterOf(f) /\ last'.a = "A" /\ last'.v = 1 )
               => ( last'.err = "none" /\ LayersFollow(val', "A", f) )
      ]_vars

\* The constraint graph: an edge from every independent of an enabled
\* constraint to its dependent.
Successors(S) ==
    {c.dep : c \in UNION {{uc[p][i] : i \in {j \in 1..Len(uc[p]) : uc[p][j].enabled}}
                            : p \in S}}
RECURSIVE ReachIn(_, _)
ReachIn(S, n) == IF n = 0 THEN S ELSE ReachIn(S \cup Successors(S), n - 1)
\* Longest path that can exist among the Parameters of one field.
PathBound == Cardinality(Asm) * 4
OnCycle(p) == p \in ReachIn(Successors({p}), PathBound)

\* C3: a constraint that would close a cycle is refused (CycleError) and the
\* registered constraints stay as they were, so the graph of enabled
\* constraints is acyclic in every reachable state.
C3_GraphAcyclic == \A p \in Params : ~OnCycle(p)

\* C4: with constrain_apm True, a write of v to layer1's area_per_molecule
\* that returns makes layer2's area_per_molecule of the same assembly equal
\* to v (to the value v is stored as, v clamped to the minimum).
C4_Layer1WriteReachesLayer2 ==
    ( /\ WroteTo(1, "area_per_molecule") /\ Returned
      /\ constrain_apm(last.a) )
    => val[P(last.a, 2, "area_per_molecule")] = Clamp(P(last.a, 1, "area_per_molecule"), last.v)

\* No Parameter holds a constraint constain_multiple_contrast registered
\* (those are keyed by the name of an assembly).
NoCrossContrast ==
    \A p \in Params : \A i \in 1..Len(uc[p]) : uc[p][i].key \notin {Name(a) : a \in Asm}
Other(a) == IF a = "A" THEN "B" ELSE "A"

\* C5: with constrain_apm True on both assemblies and no cross-contrast
\* constraint between them, a write to an area_per_molecule Parameter of one
\* assembly (layer1, layer2 or assembly-level) changes no Parameter value of
\* the other assembly.
C5_OtherAssemblyUntouched ==
    [][\A a \in Asm :
          ( /\ constrain_apm("A") /\ constrain_apm("B") /\ NoCrossContrast
            /\ last'.op = "write" /\ last'.a = a /\ last'.f = "area_per_molecule" )
          => \A p \in Params : p[1] = Other(a) => val'[p] = val[p]
      ]_vars

\* Both assemblies are constrained, A's assembly-level Parameter was written
\* and A's layers followed while B's kept the values of their construction.
C5_Witness ==
    /\ constrain_apm("A") /\ constrain_apm("B") /\ NoCrossContrast
    /\ WroteTo(0, "area_per_molecule") /\ Returned /\ last.a = "A" /\ last.v = 3
    /\ val[P("A", 1, "area_per_molecule")] = 3
    /\ val[P("A", 2, "area_per_molecule")] = 3
    /\ val[P("B", 1, "area_per_molecule")] = 1

\* conformal_roughness was never set on assembly a, or was set to False last.
NotConformal(a) ==
    \/ ~has[<<a, "roughness">>]
    \/ SwitchedOff(a, "roughness")

\* C6: constrain_solvent_roughness on an assembly whose conformal_roughness
\* is not on raises (ValueError, the precondition error), registers no
\* constraint and leaves every Parameter, the solvent roughness among them,
\* as it was.
C6_SolventRoughnessNeedsConformal ==
    [][\A a \in Asm :
          ( /\ NotConformal(a)
            /\ last'.op = "constrain_solvent_roughness" /\ last'.a = a )
          => /\ last'.err = "ValueError"
             /\ uc' = uc /\ val' = val /\ en' = en
      ]_vars

\* The call was refused on an assembly whose conformal_roughness had been
\* switched off, after the assembly roughness moved away from the solvent's.
C6_Witness ==
    /\ last.op = "constrain_solvent_roughness" /\ last.err = "ValueError"
    /\ last.a = "A"
    /\ SwitchedOff("A", "roughness")
    /\ val[SolventRoughness] # val[P("A", 0, "roughness")]
    /\ \A p \in Params : \A i \in 1..Len(uc[p]) : uc[p][i].key # "solvent_roughness"

\* C7: after the active interface has been switched, every Parameter of
\* every entity that was bound reads the same from the new calculator as its
\* own value.
C7_SwitchPreservesValues ==
    hist.op = "switch" =>
        /\ hist.err = "none"
        /\ \A q \in Linked :
               bnd[q[1]] => store[q[1]].on /\ ReadBackend(store, q) = pv[q]

\* The interface was switched to another backend after a layer's thickness
\* was written away from the value a fresh calculator object holds.
C7_Witness ==
    /\ hist.op = "switch" /\ hist.x = "refl1d" /\ hist.err = "none"
    /\ bnd["l1"] /\ pv[<<"l1", "thickness">>] = 3
    /\ ReadBackend(store, <<"l1", "thickness">>) = 3

\* C9: the calculator's layer order of every bound assembly, and its item
\* order of the bound Model, is the order of the entity tree.
C9_BackendOrderIsTreeOrder ==
    /\ \A i \in Items : bnd[i] => store[i].seq = tree.layers[i]
    /\ bnd[ModelEnt] => store[ModelEnt].seq = tree.items

\* The interface was assigned, then l1 was taken out of assembly i1 and put
\* back behind l2, and assembly i2 was added to the Model: the calculator
\* holds both orders as the tree does.
C9_Witness ==
    /\ iface # "none" /\ bnd["i1"] /\ bnd["i2"] /\ bnd[ModelEnt]
    /\ tree.layers["i1"] = <<"l2", "l1">> /\ store["i1"].seq = <<"l2", "l1">>
    /\ tree.items = <<"i1", "i2">> /\ store[ModelEnt].seq = <<"i1", "i2">>

\* C10: create(entity) on an entity the calculator holds already makes no
\* calculator call and leaves the calculator's storage as it was.
C10_CreateIdempotent ==
    [][ (hist'.op = "create" /\ nops' = nops + 1 /\ store[hist'.x].on)
            => (store' = store /\ hist'.calls = 0)
      ]_vars

\* C11: the ItemContainer create(entity) returns is keyed by the uid of the
\* entity, whatever its kind.
C11_ContainerKeyIsUid ==
    (hist.op = "create" /\ hist.err = "none") => hist.y = hist.x

\* C12: a create(entity) in which a calculator call fails leaves the
\* calculator's storage as it was before the call.
C12_FailedCreateUndone ==
    [][ (hist'.op = "create" /\ nops' = nops + 1 /\ hist'.err # "none")
            => store' = store
      ]_vars

\* C13 (as stated): the factory starts without a selected backend.
C13_StartsUnselected == hist.op = "init" => iface = "none"

\* C13 (amended): the factory has an active backend from its construction
\* on, in every state; reset_storage called on it reaches that backend and
\* returns.
C13_FactoryAlwaysActive ==
    /\ iface \in Backends
    /\ hist.op = "reset_storage" => (hist.err = "none" /\ store = EmptyStore)

\* reset_storage was called after a switch to the second backend.
C13_Witness ==
    /\ hist.op = "reset_storage" /\ hist.x = "refl1d" /\ hist.err = "none"
    /\ iface = "refl1d" /\ store = EmptyStore

\* C14: with a backend active and the model bound, sld_profile(model_id)
\* returns without raising the backend's pair of sequences, equally long.
C14_SldProfileDelegates ==
    (hist.op = "sld_profile" /\ iface \in Backends /\ store[ModelEnt].on)
        => /\ hist.err = "none"
           /\ Len(hist.out) = 2 /\ hist.out[1] = hist.out[2]

\* C15: reset_storage empties the calculator's storage and changes neither
\* the tree, nor a Parameter's value, nor a constraint or an enabled flag.
C15_ResetStorageFrame ==
    [][ (hist'.op = "reset_storage" /\ nops' = nops + 1)
            => /\ store' = EmptyStore
               /\ tree' = tree /\ pv' = pv /\ bnd' = bnd
               /\ val' = val /\ en' = en /\ uc' = uc
      ]_vars

\* The storage held the bound Model, whose scale had been written and whose
\* assembly i2 had been given layer l1, and reset_storage emptied it while the
\* tree and the Parameter kept theirs.
C15_Witness ==
    /\ hist.op = "reset_storage" /\ hist.err = "none" /\ store = EmptyStore
    /\ pv[<<ModelEnt, "scale">>] = 3
    /\ tree.layers["i2"] = <<"l2", "l1">>

\* C16: a write by the caller to an enabled Parameter whose fixed flag is
\* set raises ImmutableParameterError and leaves the value unchanged.
C16_FixedRejectsWrite ==
    [][\A p \in Params :
          ( /\ last'.op = "write" /\ nops' = nops + 1
            /\ p = P(last'.a, last'.l, last'.f) /\ Fixed(p) /\ en[p] )
          => (last'.err = "ImmutableParameterError" /\ val'[p] = val[p])
      ]_vars

\* min <= value <= max for every enabled Parameter.
WithinBounds ==
    \A p \in Params : en[p] => val[p] = Clamp(p, val[p])

\* C17: in every reachable state each enabled Parameter satisfies
\* min <= value <= max, values written by constraint propagation included,
\* and a write by the caller of a value outside the bounds raises RangeError
\* and leaves the value unchanged.
C17_BoundsKeptByRangeError ==
    [][ /\ WithinBounds'
        /\ \A p \in Params :
             ( /\ last'.op = "write" /\ nops' = nops + 1
               /\ p = P(last'.a, last'.l, last'.f) /\ en[p]
               /\ Clamp(p, last'.v) # last'.v )
             => (last'.err = "RangeError" /\ val'[p] = val[p])
      ]_vars

\* The enabled constraint objects, in any user_constraints dict, whose
\* dependent is p.
WritersOf(p) ==
    {c \in UNION {Range(uc[q]) : q \in Params} : c.dep = p /\ c.enabled}

\* C18: in every state reachable through constrain_apm, conformal_roughness,
\* constrain_solvent_roughness and constain_multiple_contrast calls, each
\* Parameter is the dependent of at most one enabled constraint.
C18_AtMostOneWriter ==
    \A p \in Params : Cardinality(WritersOf(p)) <= 1

\* C19: for the layer built by from_pars('C10H18NO8P', 10.0, D2O, 0.2, 48.2,
\* 3.0), the sld of the Layer's material (the MaterialSolvated handed to
\* Layer.__init__) equals scattering_length_real / (thickness *
\* area_per_molecule), 2093/2410 in the units of the example, and after
\* area_per_molecule has been set to 60.0 it equals the same expression
\* evaluated with 60.0.
C19_ExampleSld ==
    /\ last.op = "init" => val[P("A", 1, "solvated_sld")] = <<2093, 2410>>
    /\ (WroteTo(1, "area_per_molecule") /\ last.a = "A" /\ last.v = 600)
       => /\ Returned
          /\ val[P("A", 1, "solvated_sld")]
                 = apm_to_sld(val[P("A", 1, "scattering_length_real")],
                              val[P("A", 1, "thickness")], 600)

\* The Parameters a write to p rewrites: the dependents of the enabled
\* constraints p holds, and of those the dependents hold in turn.
Rewritten(p) == ReachIn(Successors({p}), PathBound)
\* A write by the caller to area_per_molecule of layer l of assembly a.
ApmWrite(a, l) ==
    /\ last'.op = "write" /\ nops' = nops + 1
    /\ last'.a = a /\ last'.l = l /\ last'.f = "area_per_molecule"
    /\ en[P(a, l, "area_per_molecule")]

\* The sld Parameters of the material of layer l: the molecule Material's
\* and the solvated Material's built on it; and the isld Parameters.
MaterialSld(a, l) == {P(a, l, "sld"), P(a, l, "solvated_sld")}
MaterialIsld(a, l) == {P(a, l, "isld"), P(a, l, "solvated_isld")}

\* C20 (as stated): a write to area_per_molecule of a LayerApm updates the
\* material sld and touches no other Parameter; the material isld among the
\* others is neither changed nor rewritten.
C20_ApmWriteTouchesOnlySld ==
    [][\A a \in Asm, l \in LayerIx :
          ApmWrite(a, l)
          => /\ Rewritten(P(a, l, "area_per_molecule")) \subseteq MaterialSld(a, l)
             /\ \A q \in Params \ ({P(a, l, "area_per_molecule")} \cup MaterialSld(a, l)) :
                    val'[q] = val[q]
      ]_vars

\* C20 (amended): a write to area_per_molecule of a LayerApm rewrites the
\* material sld and the material isld (the molecule Material's, each by its
\* rule when the write returns, and with them the solvated Material's, each
\* the mixture of the new value with its current solvent's) and touches no other
\* Parameter: thickness, roughness, solvation, scattering_length_real,
\* scattering_length_imag and the solvent's sld and isld are neither changed
\* nor rewritten by the write.
C20_ApmWriteTouchesSldAndIsld ==
    [][\A a \in Asm, l \in LayerIx :
          ApmWrite(a, l)
          => /\ Rewritten(P(a, l, "area_per_molecule"))
                    = MaterialSld(a, l) \cup MaterialIsld(a, l)
             /\ \A q \in Params \ ({P(a, l, "area_per_molecule")}
                                      \cup MaterialSld(a, l) \cup MaterialIsld(a, l)) :
                    val'[q] = val[q]
             /\ last'.err = "none"
                => /\ val'[P(a, l, "sld")]
                        = apm_to_sld(val[P(a, l, "scattering_length_real")],
                                     val[P(a, l, "thickness")], last'.v)
                   /\ val'[P(a, l, "isld")]
                        = apm_to_sld(val[P(a, l, "scattering_length_imag")],
                                     val[P(a, l, "thickness")], last'.v)
                   /\ val'[P(a, l, "solvated_sld")]
                        = weighted_average(val'[P(a, l, "sld")],
                                           val[SldOfSolvent(solvent[<<a, l>>])],
                                           val[P(a, l, "fraction")])
                   /\ val'[P(a, l, "solvated_isld")]
                        = weighted_average(val'[P(a, l, "isld")],
                                           val[IsldOfSolvent(solvent[<<a, l>>])],
                                           val[P(a, l, "fraction")])
      ]_vars

\* With an imaginary scattering length of 3, a write of 3 to the area per
\* molecule has returned and the isld is no longer 0.
C20_Witness ==
    /\ WroteTo(1, "area_per_molecule") /\ Returned /\ last.a = "A" /\ last.v = 3
    /\ val[P("A", 1, "scattering_length_imag")] = 3
    /\ val[P("A", 1, "isld")] # Quot(0, 1)
    /\ val[P("A", 1, "isld")] = IsldOf("A", 1)
    /\ val[P("A", 1, "solvated_isld")] # ConstructedValue(P("A", 1, "solvated_isld"))
    /\ val[SolventSld] = SolventValue(SolventSld)

\* C21: immediately after self.constain_multiple_contrast(other, ...) has
\* returned, every Parameter of self selected by a True flag equals the
\* corresponding Parameter of other.
C21_ContrastAlignsValues ==
    [][\A self \in Asm, other \in Asm, flags \in FlagSets :
          (ConstainMultipleContrast(self, other, flags) /\ last'.err = "none")
          => \A i \in 1..6 :
                 flags[i] => val'[P(self, ContrastFields[i][1], ContrastFields[i][2])]
                               = val'[P(other, ContrastFields[i][1], ContrastFields[i][2])]
      ]_vars

\* A write by the caller to one of the independents of the two rules of
\* layer l of assembly a.
RuleInputs == {"thickness", "area_per_molecule",
               "scattering_length_real", "scattering_length_imag"}
RuleInputWrite(a, l) ==
    /\ last'.op = "write" /\ nops' = nops + 1
    /\ last'.a = a /\ last'.l = l /\ last'.f \in RuleInputs
    /\ en[P(a, l, last'.f)]

\* C22: when a functional rule raises while a write to thickness,
\* area_per_molecule or a scattering length of a LayerApm is propagated, the
\* error reaches the caller, nothing further is propagated, and the material
\* sld and the material isld both hold their value from before the write.
C22_FailedRuleLeavesDependents ==
    [][\A a \in Asm, l \in LayerIx :
          ( /\ RuleInputWrite(a, l)
            /\ RuleRaises(val'[P(a, l, "scattering_length_real")],
                          val'[P(a, l, "thickness")],
                          val'[P(a, l, "area_per_molecule")]) )
          => /\ last'.err = "ZeroDivisionError"
             /\ val'[P(a, l, "sld")] = val[P(a, l, "sld")]
             /\ val'[P(a, l, "isld")] = val[P(a, l, "isld")]
             /\ \A q \in Params \ {P(a, l, last'.f)} : val'[q] = val[q]
      ]_vars

\* A write of 0 to the thickness raised after the sld had been moved off its
\* constructed value: the thickness is 0 and the sld is the one of before.
C22_Witness ==
    /\ WroteTo(1, "thickness") /\ last.a = "A" /\ last.err = "ZeroDivisionError"
    /\ val[P("A", 1, "thickness")] = 0
    /\ val[P("A", 1, "sld")] # LayerApmValue(P("A", 1, "sld"))
    /\ val[P("A", 1, "sld")] # SldOf("A", 1)

\* A write by the caller to the assembly-level area_per_molecule of a, with
\* constrain_apm True before it.
TopApmWrite(a) ==
    /\ last'.op = "write" /\ nops' = nops + 1
    /\ last'.a = a /\ last'.l = 0 /\ last'.f = "area_per_molecule"
    /\ constrain_apm(a)

\* C23: with constrain_apm True, when a write of v to the assembly-level
\* area_per_molecule returns, layer1's and layer2's area_per_molecule equal v
\* and the sld and isld of both layers are the ones the rule gives for v; the
\* 'apm1' chain runs before the 'apm2' chain, so a write that raises in the
\* chain of layer1 has not reached layer2.
C23_WriteFullyPropagated ==
    [][\A a \in Asm :
          TopApmWrite(a)
          => /\ last'.err = "none"
                => /\ val'[P(a, 0, "area_per_molecule")] = last'.v
                   /\ val'[P(a, 1, "area_per_molecule")] = last'.v
                   /\ val'[P(a, 2, "area_per_molecule")] = last'.v
                   /\ \A l \in LayerIx :
                        /\ val'[P(a, l, "sld")]
                             = apm_to_sld(val[P(a, l, "scattering_length_real")],
                                          val[P(a, l, "thickness")], last'.v)
                        /\ val'[P(a, l, "isld")]
                             = apm_to_sld(val[P(a, l, "scattering_length_imag")],
                                          val[P(a, l, "thickness")], last'.v)
             /\ last'.err # "none"
                => /\ val'[P(a, 2, "area_per_molecule")] = val[P(a, 2, "area_per_molecule")]
                   /\ val'[P(a, 2, "sld")] = val[P(a, 2, "sld")]
      ]_vars

\* constrain_apm is on, 3 was written to the assembly-level Parameter, and
\* the sld of layer2 (thickness 2, scattering length 1) is 1/6.
C23_Witness ==
    /\ WroteTo(0, "area_per_molecule") /\ Returned /\ last.a = "A" /\ last.v = 3
    /\ constrain_apm("A")
    /\ val[P("A", 1, "sld")] = Quot(1, 3)
    /\ val[P("A", 2, "sld")] = Quot(1, 6)

\* C24: every Parameter write terminates: whatever constraints the
\* constrain_apm and constain_multiple_contrast calls have installed, the
\* propagation of one write fires finitely many constraints and returns; it
\* never recurses until the interpreter's recursion limit ends it.
C24_WriteTerminates ==
    last.op = "write" => last.err # "RecursionError"

\* Every entity reachable from the Model has its counterpart in the
\* calculator: created, each layer with its material, each assembly with its
\* layers and the model with its assemblies, in the tree's order.
FullyBound ==
    /\ \A e \in SubtreeModel(tree) : store[e].on
    /\ \A l \in Lays : l \in SubtreeModel(tree) => store[l].of = MaterialOf(l)
    /\ \A i \in Range(tree.items) : store[i].seq = tree.layers[i]
    /\ store[ModelEnt].seq = tree.items

\* C25: after an interface is assigned to a Model, every Material, Layer and
\* assembly reachable from it has its counterpart in the active backend, each
\* layer with its material, each assembly with its layers and the model with
\* its items, so that a fit on the model yields both the reflectivity result
\* 'R_0_model' and the profile result 'SLD_0'.
C25_AssignedModelFits ==
    /\ hist.op = "set_interface" => (hist.err = "none" /\ FullyBound)
    /\ (hist.op = "fit" /\ FullyBound)
       => (hist.err = "none" /\ Range(hist.out) = {"R_0_model", "SLD_0"})

\* What reading constrain_apm / conformal_roughness of assembly a yields.
Getter(a, f) == IF f = "area_per_molecule" THEN constrain_apm(a) ELSE conformal_roughness(a)

\* C26: constrain_apm reads False on a SurfactantLayer on which it was never
\* assigned; an assignment of x that returns makes it read x, and it goes on
\* reading x until the next assignment to it, whatever is written or assigned
\* to the other property in between.  conformal_roughness likewise.
C26_GetterReadsLastAssigned ==
    [][\A f \in AsmFields :
          /\ ~has'[<<"A", f>>] => ~Getter("A", f)'
          /\ (last'.op = SetterOf(f) /\ last'.a = "A" /\ nops' = nops + 1 /\ last'.err = "none")
             => /\ ~GetterRaises(uc', has', "A", f, Key1(f), Key2(f))
                /\ Getter("A", f)' = (last'.v = 1)
          /\ (last'.op # SetterOf(f) /\ nops' = nops + 1)
             => Getter("A", f)' = Getter("A", f)
      ]_vars

\* constrain_apm was assigned False last and conformal_roughness True, then a
\* Parameter was written: constrain_apm reads False although the attribute
\* and both mirrors exist, conformal_roughness reads True.
C26_Witness ==
    /\ last.op = "write" /\ has[<<"A", "area_per_molecule">>]
    /\ SwitchedOff("A", "area_per_molecule")
    /\ ~constrain_apm("A")
    /\ conformal_roughness("A")

\* constrain_solvent_roughness(SolventRoughness) has just returned on
\* assembly A; a write to A's roughness has just returned.
SolventConstrained ==
    /\ last.op = "constrain_solvent_roughness" /\ last.a = "A" /\ last.v = 0
    /\ last.err = "none"
WroteRoughness ==
    /\ WroteTo(0, "roughness") /\ last.a = "A" /\ Returned
\* The constraint the method registers for p on A's roughness.
SolventMirrorOf(p) ==
    LET d == uc[P("A", 0, "roughness")]
        i == IndexOf(d, "solvent_roughness")
    IN i # 0 /\ d[i].dep = p /\ d[i].ind = <<P("A", 0, "roughness")>> /\ d[i].enabled

\* C27: a successful constrain_solvent_roughness(p) leaves p's value equal
\* to the assembly roughness and a constraint with dependent p and
\* independent the assembly roughness registered under 'solvent_roughness';
\* from then on the constraint stays registered, whatever is called next, and
\* after every write to the assembly roughness p's value equals the value
\* written.
C27_SolventRoughnessFollows ==
    [][ /\ (SolventConstrained' /\ nops' = nops + 1)
           => /\ val'[SolventRoughness] = val'[P("A", 0, "roughness")]
              /\ SolventMirrorOf(SolventRoughness)'
        /\ SolventMirrorOf(SolventRoughness)
           => /\ SolventMirrorOf(SolventRoughness)'
              /\ (WroteRoughness' /\ nops' = nops + 1)
                 => val'[SolventRoughness] = val'[P("A", 0, "roughness")]
      ]_vars

\* The i-th Parameter constain_multiple_contrast handles, on assembly a.
ContrastParam(a, i) == P(a, ContrastFields[i][1], ContrastFields[i][2])
\* self.constain_multiple_contrast(other, ...) has installed, with the i-th
\* flag True, the mirror from other's Parameter onto self's.
ContrastLink(self, other, i) ==
    \E c \in Range(uc[ContrastParam(other, i)]) :
        c.key = Name(other) /\ c.dep = ContrastParam(self, i) /\ c.enabled
\* The step is a write by the caller to Parameter p.
WriteTo(p) ==
    last'.op = "write" /\ nops' = nops + 1 /\ P(last'.a, last'.l, last'.f) = p

\* C28: after self.constain_multiple_contrast(other, flags), a write to a
\* Parameter of other whose flag was True, carried out (other's Parameter is
\* enabled) and returned, sets the corresponding Parameter of self to the same
\* value; a Parameter of self without such a constraint is not changed by any
\* write to other; and with no constraint installed in the opposite direction
\* no write to a Parameter of self changes a Parameter of other.
C28_ContrastMirrorsOneWay ==
    [][\A self \in Asm, other \in Asm :
          self # other =>
            /\ \A i \in 1..6 :
                 /\ ( /\ ContrastLink(self, other, i) /\ WriteTo(ContrastParam(other, i))
                      /\ en[ContrastParam(other, i)] /\ last'.err = "none" )
                    => /\ val'[ContrastParam(other, i)] = last'.v
                       /\ val'[ContrastParam(self, i)] = last'.v
                 /\ ( /\ ~ContrastLink(self, other, i)
                      /\ \E q \in LayerParams : q[1] = other /\ WriteTo(q) )
                    => val'[ContrastParam(self, i)] = val[ContrastParam(self, i)]
            /\ ( /\ \A j \in 1..6 : ~ContrastLink(other, self, j)
                 /\ \E q \in LayerParams : q[1] = self /\ WriteTo(q) )
               => \A q2 \in Params : q2[1] = other => val'[q2] = val[q2]
      ]_vars

\* A's layer1 thickness alone was constrained to B's; 3 was written to B's
\* and A's thickness is 3 while A's area per molecule is as constructed.
C28_Witness ==
    /\ ContrastLink("A", "B", 1) /\ \A i \in 2..6 : ~ContrastLink("A", "B", i)
    /\ WroteTo(1, "thickness") /\ last.a = "B" /\ Returned /\ last.v = 3
    /\ val[P("A", 1, "thickness")] = 3
    /\ val[P("A", 1, "area_per_molecule")] = LayerApmValue(P("A", 1, "area_per_molecule"))


\* C29: after layer.molecular_formula = f has returned, molecular_formula
\* reads f, scattering_length_real and scattering_length_imag are the real and
\* imaginary parts of neutron_scattering_length(f), sld and isld are the rule
\* applied to the new scattering lengths with the current thickness and
\* area_per_molecule, and the solvated material is named f + '/' + the
\* solvent's name.
C29_FormulaAssignment ==
    (last.op = "molecular_formula" /\ Returned) =>
        /\ molecular_formula[<<last.a, last.l>>] = last.f
        /\ val[P(last.a, last.l, "scattering_length_real")] = ScatteringLength(last.f)[1]
        /\ val[P(last.a, last.l, "scattering_length_imag")] = ScatteringLength(last.f)[2]
        /\ val[P(last.a, last.l, "sld")] = SldOf(last.a, last.l)
        /\ val[P(last.a, last.l, "isld")] = IsldOf(last.a, last.l)
        /\ material_name[<<last.a, last.l>>]
               = last.f \o "/" \o SolventNameOf(solvent[<<last.a, last.l>>])
\* A formula other than the constructed one was assigned: both scattering
\* lengths, sld, isld and the name changed from their constructed values.
C29_Witness ==
    /\ last.op = "molecular_formula" /\ Returned
    /\ last.f # DefaultFormula
    /\ molecular_formula[<<last.a, last.l>>] = last.f
    /\ val[P(last.a, last.l, "scattering_length_imag")] # 0
    /\ val[P(last.a, last.l, "sld")] # ConstructedValue(P(last.a, last.l, "sld"))
    /\ val[P(last.a, last.l, "isld")] # ConstructedValue(P(last.a, last.l, "isld"))
    /\ material_name[<<last.a, last.l>>] = "C32D64/D2O"

\* C31: when constrain_apm (conformal_roughness) is set True for the first
\* time on a SurfactantLayer whose two layers hold different values a1 and a2
\* of area_per_molecule (roughness), and the assignment returns, the assembly
\* Parameter and both layers' Parameters hold a1, layer1's value before the
\* assignment; after constrain_apm both layers' sld and isld are the rule at a1.
FirstSetTrue(a, f) ==
    /\ ~has[<<a, f>>]
    /\ val[P(a, 1, f)] # val[P(a, 2, f)]
    /\ last'.op = (IF f = "roughness" THEN "conformal_roughness" ELSE "constrain_apm")
    /\ last'.a = a /\ last'.v = 1 /\ last'.err = "none"
AllTakeLayer1(a, f) ==
    /\ val'[P(a, 0, f)] = val[P(a, 1, f)]
    /\ val'[P(a, 1, f)] = val[P(a, 1, f)]
    /\ val'[P(a, 2, f)] = val[P(a, 1, f)]
C31_FirstTrueTakesLayer1 ==
    [][\A a \in Asm :
          /\ FirstSetTrue(a, "area_per_molecule") =>
                 /\ AllTakeLayer1(a, "area_per_molecule")
                 /\ Consistent(a, 1)' /\ Consistent(a, 2)'
          /\ FirstSetTrue(a, "roughness") => AllTakeLayer1(a, "roughness")]_vars
\* layer1's area_per_molecule was written, then constrain_apm = True was the
\* first assignment of the toggle, on layers whose area_per_molecule
\* differed: layer2 and the assembly now hold layer1's value and both mirrors
\* are enabled.
C31_Witness ==
    /\ last.op = "constrain_apm" /\ last.v = 1 /\ Returned
    /\ nops = 2
    /\ val[P("A", 1, "area_per_molecule")] = 3
    /\ val[P("A", 2, "area_per_molecule")] = 3
    /\ val[P("A", 0, "area_per_molecule")] = 3
    /\ val[P("A", 2, "area_per_molecule")] # ConstructedValue(P("A", 2, "area_per_molecule"))
    /\ constrain_apm("A")

\* C32: constrain_apm = False (conformal_roughness = False) on a
\* SurfactantLayer on which the toggle was never set True changes no layer
\* Parameter value: both layers' area_per_molecule (roughness), sld and isld
\* are after the assignment what they were before.  Stated for the assignment
\* that finds the toggle never assigned at all.
FirstSetFalse(a, f) ==
    /\ ~has[<<a, f>>]
    /\ last'.op = (IF f = "roughness" THEN "conformal_roughness" ELSE "constrain_apm")
    /\ last'.a = a /\ last'.v = 0
LayerValuesKept(a, f) ==
    \A l \in LayerIx, g \in {f, "sld", "isld"} : val'[P(a, l, g)] = val[P(a, l, g)]
C32_FalseChangesNoValue ==
    [][\A a \in Asm, f \in AsmFields : FirstSetFalse(a, f) => LayerValuesKept(a, f)]_vars

\* C33: in every reachable state, an enabled 'solvent_roughness' constraint
\* on an assembly's roughness implies that the assembly's conformal_roughness
\* reads True (so once conformal_roughness is set False the solvent's
\* roughness is no longer driven by the assembly roughness).
SolventConstraintEnabled(a) ==
    LET d == uc[P(a, 0, "roughness")]
        i == IndexOf(d, "solvent_roughness")
    IN i # 0 /\ d[i].enabled
C33_SolventConstraintNeedsConformal ==
    \A a \in Asm : SolventConstraintEnabled(a) => conformal_roughness(a)

\* C34: registering a constraint never removes or replaces a constraint
\* already registered on the same independent Parameter: every constraint
\* found in a Parameter's user_constraints before a step is found there after
\* it, under the same key and with the same dependent (so after
\* A.constain_multiple_contrast(C) and B.constain_multiple_contrast(C) a write
\* to C reaches both A and B, and the 'apm' / 'iapm' rules stay in place).
KeptIn(c, d) == \E j \in 1..Len(d) : d[j].key = c.key /\ d[j].dep = c.dep
C34_RegistrationKeepsConstraints ==
    [][\A p \in Params : \A i \in 1..Len(uc[p]) : KeptIn(uc[p][i], uc'[p])]_vars
====
